---------------------------- MODULE Spec2Model ----------------------------
(***************************************************************************)
(* Series-string photovoltaic simulation of shellpowerplusplus:            *)
(*   src/src/simulation/iv_trace.c   (IVTrace, LinInterp, IVTrace_InterpV) *)
(*   src/src/simulation/string_sim.c (StringSim_CalcStringIV,              *)
(*                                    StringSim_CalcStringIVSegments)      *)
(*                                                                         *)
(* Numbers.  The C code computes in float.  The model computes in exact    *)
(* rationals <<num, den>> (den > 0, lowest terms), so rounding of ordinary *)
(* values is not modelled; the two extreme values the code produces on     *)
(* purpose, -FLT_MAX and the -inf that two of them add up to, are kept     *)
(* with their float behaviour (an ordinary addend is absorbed).            *)
(* Arrays keep the C indexes: they are functions on 0..n-1.                *)
(***************************************************************************)
EXTENDS Integers, Sequences, FiniteSets, TLC

(***************************************************************************)
(* Bounds of the model.                                                    *)
(***************************************************************************)
\* samples of one sweep; stands for STRING_SIM_SAMPLES (200)
NSamples == 5
\* most cells of a string handed to the simulation
MaxCells == 3
\* most cells of a string handed to the segment simulation with free segments
MaxSegCells == 2
\* most segments of a free segment list
MaxSegs == 3
\* samples of a generated cell trace; stands for IV_TRACE_MAX_SAMPLES (200)
NTraceSamples == 4
\* most samples of a trace handed to the interpolation directly
MaxTraceLen == 3

\* stands for FLT_MAX of <float.h>: larger than every ordinary value here
FLT_MAX == 1000000

(***************************************************************************)
(* Rational arithmetic.                                                    *)
(***************************************************************************)
Abs(n) == IF n < 0 THEN -n ELSE n

RECURSIVE GCD(_, _)
GCD(a, b) == IF b = 0 THEN a ELSE GCD(b, a % b)

Norm(n, d) ==
    LET s == IF d < 0 THEN -1 ELSE 1
        g == GCD(Abs(n), Abs(d))
    IN  <<(s * n) \div g, (s * d) \div g>>

R(n) == <<n, 1>>
Zero == R(0)
\* common factors are taken out before the products, which keeps them small
RAdd(a, b) ==
    LET g == GCD(a[2], b[2])
    IN  Norm(a[1] * (b[2] \div g) + b[1] * (a[2] \div g), (a[2] \div g) * b[2])
RNeg(a) == <<-a[1], a[2]>>
RSub(a, b) == RAdd(a, RNeg(b))
RMul(a, b) ==
    LET g1 == GCD(Abs(a[1]), b[2])
        g2 == GCD(Abs(b[1]), a[2])
    IN  Norm((a[1] \div g1) * (b[1] \div g2), (a[2] \div g2) * (b[2] \div g1))
RDiv(a, b) == RMul(a, IF b[1] < 0 THEN <<-b[2], -b[1]>> ELSE <<b[2], b[1]>>)
RLt(a, b) ==
    LET g == GCD(a[2], b[2])
    IN  a[1] * (b[2] \div g) < b[1] * (a[2] \div g)
RLe(a, b) ==
    LET g == GCD(a[2], b[2])
    IN  a[1] * (b[2] \div g) <= b[1] * (a[2] \div g)

(***************************************************************************)
(* The float values -FLT_MAX and -inf, and float +, -, fmaxf on them.      *)
(***************************************************************************)
NegFltMax == R(-FLT_MAX)
NegInf == R(-2 * FLT_MAX)

\* a + b in float: -FLT_MAX absorbs an ordinary addend, and
\* (-FLT_MAX) + (-FLT_MAX) overflows to -inf, which absorbs everything
FAdd(a, b) ==
    IF a = NegInf \/ b = NegInf THEN NegInf
    ELSE IF a = NegFltMax /\ b = NegFltMax THEN NegInf
    ELSE IF a = NegFltMax \/ b = NegFltMax THEN NegFltMax
    ELSE RAdd(a, b)

FSub(a, b) == FAdd(a, RNeg(b))

\* the smaller of the two in the place of the larger
fmaxf_Min(a, b) == IF RLt(a, b) THEN a ELSE b

fmaxf(a, b) == IF RLt(a, b) THEN b ELSE a

(***************************************************************************)
(* IVTrace and its interpolation (iv_trace.h, iv_trace.c).                 *)
(***************************************************************************)
IVTrace(I, V, n, voc, isc, vmp, imp) ==
    [I |-> I, V |-> V, n_samples |-> n, Voc |-> voc, Isc |-> isc,
     Vmp |-> vmp, Imp |-> imp]

Arr2(a, b) == [k \in 0..1 |-> IF k = 0 THEN a ELSE b]
Arr3(a, b, c) == [k \in 0..2 |-> IF k = 0 THEN a ELSE IF k = 1 THEN b ELSE c]

\* the binary search with the comparison turned around
RECURSIVE BinSearch_Flipped(_, _, _, _, _)
BinSearch_Flipped(xs, x0, ascending, ix0, ix1) ==
    IF ix0 < ix1 - 1
    THEN LET ixmid == (ix1 + ix0) \div 2
         IN  IF RLt(x0, xs[ixmid]) = ascending
             THEN BinSearch_Flipped(xs, x0, ascending, ixmid, ix1)
             ELSE BinSearch_Flipped(xs, x0, ascending, ix0, ixmid)
    ELSE <<ix0, ix1>>

\* the binary search of LinInterp: the pair <<ix0, ix1>> the loop ends with
RECURSIVE BinSearch(_, _, _, _, _)
BinSearch(xs, x0, ascending, ix0, ix1) ==
    IF ix0 < ix1 - 1
    THEN LET ixmid == (ix1 + ix0) \div 2
         IN  IF RLt(xs[ixmid], x0) = ascending
             THEN BinSearch(xs, x0, ascending, ixmid, ix1)
             ELSE BinSearch(xs, x0, ascending, ix0, ixmid)
    ELSE <<ix0, ix1>>

\* the interpolation step of LinInterp on the pair the search ended with;
\* fabsf(dx) < 1e-9f is dx = 0 at the model's resolution
LinInterpAt(xs, ys, x0, ix0, ix1) ==
    LET dx == RSub(xs[ix1], xs[ix0])
    IN  IF dx = Zero THEN ys[ix0]
        ELSE LET t == RDiv(RSub(x0, xs[ix0]), dx)
             IN  RAdd(RMul(t, ys[ix1]), RMul(RSub(R(1), t), ys[ix0]))

LinInterp(xs, ys, n, x0, ascending) ==
    IF n < 2 THEN ys[0]
    ELSE LET p == BinSearch(xs, x0, ascending, 0, n - 1)
         IN  LinInterpAt(xs, ys, x0, p[1], p[2])

IVTrace_InterpV(trace, current) ==
    IF trace.n_samples < 2 THEN Zero
    ELSE LinInterp(trace.I, trace.V, trace.n_samples, current, FALSE)

IVTrace_InterpI(trace, voltage) ==
    IF trace.n_samples < 2 THEN Zero
    ELSE LinInterp(trace.V, trace.I, trace.n_samples, voltage, TRUE)

(***************************************************************************)
(* Cell traces handed to the string simulation.  Each has the shape        *)
(* IVTrace_CreateCellTrace gives a trace: V ascending from 0 to Voc, I     *)
(* descending to 0, I[0] <= Isc (I[0] = Iph * (1 - exp(-Voc/(n*Vt))) is    *)
(* below Isc = Iph when Voc/(n*Vt) is small).                              *)
(***************************************************************************)
\* the trace of a dark cell: irradiance_ratio <= 0.001
DarkTrace == IVTrace(Arr2(Zero, Zero), Arr2(Zero, Zero), 2, Zero, Zero, Zero, Zero)
\* a fully lit cell: Isc = 8 = I[0]
FullTrace == IVTrace(Arr3(R(8), R(6), Zero), Arr3(Zero, R(1), R(2)), 3,
                     R(2), R(8), R(1), R(6))
\* a half shaded cell: Isc = 4 = I[0]
HalfTrace == IVTrace(Arr3(R(4), R(3), Zero), Arr3(Zero, R(1), R(2)), 3,
                     R(2), R(4), R(1), R(3))
\* a lit cell whose first sample lies below its Isc: Isc = 8, I[0] = 4
GapTrace == IVTrace(Arr3(R(4), R(3), Zero), Arr3(Zero, R(1), R(2)), 3,
                    R(2), R(8), R(1), R(3))

CellTraces == {DarkTrace, FullTrace, HalfTrace, GapTrace}
SegCellTraces == {DarkTrace, FullTrace, HalfTrace}

\* diode drops handed to StringSim_CalcStringIV
BypassDrops == {Zero, R(1)}

(***************************************************************************)
(* StringSimResult and SegmentBypass.                                      *)
(***************************************************************************)
SampleIdx == 0..(NSamples - 1)

\* what the caller's result structure may hold before a call
StaleResult ==
    [power_out |-> R(7), voltage |-> R(7), current |-> R(7),
     power_ideal |-> R(7), cells_bypassed |-> 7,
     iv_trace |-> IVTrace([k \in SampleIdx |-> R(7)], [k \in SampleIdx |-> R(7)],
                          NSamples, R(7), R(7), R(7), R(7))]

\* the result structure when the memset is left out
ZeroResult_NotCleared == StaleResult

\* memset(result, 0, sizeof(StringSimResult))
ZeroResult ==
    [power_out |-> Zero, voltage |-> Zero, current |-> Zero,
     power_ideal |-> Zero, cells_bypassed |-> 0,
     iv_trace |-> IVTrace([k \in SampleIdx |-> Zero], [k \in SampleIdx |-> Zero],
                          0, Zero, Zero, Zero, Zero)]

SegmentBypass(s, e, d) == [start_idx |-> s, end_idx |-> e, v_drop |-> d]

VARIABLES
    cell_traces,         \* argument: array 0..n_cells-1 of IVTrace
    n_cells,             \* argument
    bypass_v_drop,       \* argument of StringSim_CalcStringIV
    has_bypass,          \* argument of StringSim_CalcStringIV: 0..n_cells-1 -> BOOLEAN
    segments,            \* argument of StringSim_CalcStringIVSegments
    n_segments,          \* argument of StringSim_CalcStringIVSegments
    pc,                  \* where the caller and the running function stand
    result,              \* *result of StringSim_CalcStringIV
    i,                   \* sample index of the sweep of StringSim_CalcStringIV
    node_v,              \* node_v[0..n_cells] of the sample just swept
    n_good_samples,      \* local of StringSim_CalcStringIV
    seg_result,          \* *result of StringSim_CalcStringIVSegments
    segment_bypassed,    \* caller's output array of StringSim_CalcStringIVSegments
    sample,              \* sample index of the sweep of StringSim_CalcStringIVSegments
    seg_bypassed,        \* seg_bypassed[] of the sample just swept
    cell_is_bypassed,    \* cell_is_bypassed[] of the sample just swept
    total_voltage,       \* total_voltage of the sample just swept, before the clamp
    max_power,           \* local of StringSim_CalcStringIVSegments
    mp_idx,              \* local of StringSim_CalcStringIVSegments
    seg_bypassed_at_mpp  \* local of StringSim_CalcStringIVSegments

VARIABLES
    trace,               \* *trace of IVTrace_CreateCellTrace, IVTrace_InterpV/I
    cell_params,         \* arguments voc, isc, n_ideal, series_r, irradiance_ratio
    create,              \* locals of IVTrace_CreateCellTrace
    query,               \* argument current / voltage of an interpolation call
    interp_out           \* value an interpolation call returned

iv_vars == <<trace, cell_params, create, query, interp_out>>

VARIABLES
    first_call,          \* caller: what an earlier call on the same cells returned
    app                  \* AppState *app: cells, strings and their counters

VARIABLES
    module,              \* *module of SaveModule
    file,                \* the lines of the module file
    loaded,              \* *module of LoadModule
    cellIdx,             \* static int cellIdx of LoadModule
    loads                \* calls of LoadModule made

module_vars == <<module, file, loaded, cellIdx, loads>>

VARIABLES
    app_sim,             \* AppState *app: mesh_loaded, sim_settings.hour,
                         \* time_sim_results, time_sim_run
    anim                 \* locals of RunTimeSimulationAnimated, and what app
                         \* held when it was called

sweep_vars == <<app_sim, anim>>

VARIABLES
    g_update,            \* g_check_in_progress, g_check_complete, g_async_result
    update_threads,      \* where each AsyncUpdateCheckThread created stands
    main_thread          \* where the main thread stands and what its calls returned

updater_vars == <<g_update, update_threads, main_thread>>

\* the application's state next to the simulation library
app_side == <<app, module_vars, sweep_vars, updater_vars>>

caller_vars == <<first_call, app_side>>

vars == <<cell_traces, n_cells, bypass_v_drop, has_bypass, segments, n_segments,
          pc, result, i, node_v, n_good_samples, seg_result, segment_bypassed,
          sample, seg_bypassed, cell_is_bypassed, total_voltage, max_power,
          mp_idx, seg_bypassed_at_mpp, iv_vars, caller_vars>>

args == <<cell_traces, n_cells, bypass_v_drop, has_bypass, segments, n_segments>>
series_vars == <<result, i, node_v, n_good_samples>>
seg_vars == <<seg_result, segment_bypassed, sample, seg_bypassed, cell_is_bypassed,
              total_voltage, max_power, mp_idx, seg_bypassed_at_mpp>>
\* everything of the simulation library, its callers' position included
sim_side == <<args, pc, series_vars, seg_vars, iv_vars>>
\* the state the simulation library works on
lib_vars == <<args, series_vars, seg_vars, iv_vars>>

\* everything but the cells and the wiring
outside_wiring == <<first_call, sim_side, module_vars, sweep_vars, updater_vars>>
\* everything but the module persistence and the position
outside_modules == <<first_call, lib_vars, app, sweep_vars, updater_vars>>

CellIdx == 0..(n_cells - 1)
SegIdx == 0..(n_segments - 1)

(***************************************************************************)
(* Both sweeps: max_isc and the current of a sample.                       *)
(***************************************************************************)
RECURSIVE MaxIscUpTo(_)
MaxIscUpTo(k) ==
    IF k = 0 THEN Zero
    ELSE LET m == MaxIscUpTo(k - 1)
         IN  IF RLt(m, cell_traces[k - 1].Isc) THEN cell_traces[k - 1].Isc ELSE m

max_isc == MaxIscUpTo(n_cells)

SampleCurrent(k) == RDiv(RMul(R(k), max_isc), R(NSamples - 1))

\* the maximum-power scan over samples 0..n-1: <<max_power, mp_idx>>
RECURSIVE MaxPowerScan(_, _, _)
MaxPowerScan(vec_i, vec_v, n) ==
    IF n = 0 THEN <<Zero, 0>>
    ELSE LET prev == MaxPowerScan(vec_i, vec_v, n - 1)
             power == RMul(vec_i[n - 1], vec_v[n - 1])
         IN  IF RLt(prev[1], power) THEN <<power, n - 1>> ELSE prev

(***************************************************************************)
(* StringSim_CalcStringIV.                                                 *)
(***************************************************************************)
\* cell_v with a cell that cannot carry the current contributing nothing
CellV_WeakIsZero(j, current) ==
    IF RLt(current, cell_traces[j - 1].Isc)
    THEN IVTrace_InterpV(cell_traces[j - 1], current)
    ELSE Zero

\* cell_v of cell j-1 at a current
CellV(j, current) ==
    IF RLt(current, cell_traces[j - 1].Isc)
    THEN IVTrace_InterpV(cell_traces[j - 1], current)
    ELSE NegFltMax

\* node_v[j] from node_v[j-1]
NodeStep(prev, j, current) ==
    LET node_v_active == FAdd(prev, CellV(j, current))
    IN  IF has_bypass[j - 1]
        THEN fmaxf(node_v_active, FSub(prev, bypass_v_drop))
        ELSE node_v_active

RECURSIVE NodeV(_, _)
NodeV(j, current) ==
    IF j = 0 THEN Zero ELSE NodeStep(NodeV(j - 1, current), j, current)

\* n_good_samples trimmed to the first negative sample, without the extra sample
GoodSamples_NoExtra(n) ==
    LET m == IF n < NSamples THEN n ELSE NSamples
    IN  IF m < 2 THEN 2 ELSE m

\* the trimmed n_good_samples
GoodSamples(n) ==
    LET m == IF n < NSamples THEN n + 1 ELSE NSamples
    IN  IF m < 2 THEN 2 ELSE m

\* cells_bypassed at the operating current
CountBypassed(mpp_current) ==
    Cardinality({c \in CellIdx : has_bypass[c] /\ RLe(cell_traces[c].Isc, mpp_current)})

SeriesBegin ==
    /\ pc = "call_series"
    /\ IF n_cells <= 0 \/ RLe(max_isc, Zero)
       THEN /\ pc' = "call_seg"
            /\ UNCHANGED <<i, node_v, n_good_samples>>
       ELSE /\ pc' = "series_sweep"
            /\ i' = 0
            /\ n_good_samples' = NSamples
            /\ UNCHANGED node_v
    /\ result' = ZeroResult
    /\ UNCHANGED <<caller_vars, iv_vars, args, seg_vars>>

SeriesSample ==
    /\ pc = "series_sweep"
    /\ i < NSamples
    /\ LET current == SampleCurrent(i)
       IN  /\ node_v' = [j \in 0..n_cells |-> NodeV(j, current)]
           /\ result' = [result EXCEPT
                             !.iv_trace.I[i] = current,
                             !.iv_trace.V[i] = fmaxf(node_v'[n_cells], Zero)]
           /\ n_good_samples' =
                  IF RLt(node_v'[n_cells], Zero) /\ n_good_samples = NSamples
                  THEN i ELSE n_good_samples
    /\ i' = i + 1
    /\ UNCHANGED <<caller_vars, iv_vars, args, pc, seg_vars>>

SeriesFinish ==
    /\ pc = "series_sweep"
    /\ i = NSamples
    /\ LET n == GoodSamples(n_good_samples)
           vec_i == result.iv_trace.I
           vec_v == result.iv_trace.V
           mp == MaxPowerScan(vec_i, vec_v, n)
       IN  /\ n_good_samples' = n
           /\ result' = [result EXCEPT
                  !.iv_trace.n_samples = n,
                  !.iv_trace.Isc = vec_i[n - 1],
                  !.iv_trace.Voc = vec_v[0],
                  !.iv_trace.Imp = vec_i[mp[2]],
                  !.iv_trace.Vmp = vec_v[mp[2]],
                  !.power_out = mp[1],
                  !.voltage = vec_v[mp[2]],
                  !.current = vec_i[mp[2]],
                  !.cells_bypassed = CountBypassed(vec_i[mp[2]])]
    /\ pc' = "call_seg"
    /\ UNCHANGED <<caller_vars, iv_vars, args, i, node_v, seg_vars>>

(***************************************************************************)
(* StringSim_CalcStringIVSegments.                                         *)
(***************************************************************************)
seg_size(s) == segments[s].end_idx - segments[s].start_idx + 1

Covers(s, c) == c >= segments[s].start_idx /\ c <= segments[s].end_idx

cell_needs_bypass(c, current) == RLe(cell_traces[c].Isc, current)

\* the scan with <= for <: among equally small segments the last listed wins
RECURSIVE BestSegScan_LastWins(_, _)
BestSegScan_LastWins(c, k) ==
    IF k = 0 THEN <<-1, n_cells + 1>>
    ELSE LET prev == BestSegScan_LastWins(c, k - 1)
         IN  IF Covers(k - 1, c) /\ seg_size(k - 1) <= prev[2]
             THEN <<k - 1, seg_size(k - 1)>>
             ELSE prev

\* the scan for the smallest segment covering cell c, over segments 0..k-1:
\* <<best_seg, best_size>>
RECURSIVE BestSegScan(_, _)
BestSegScan(c, k) ==
    IF k = 0 THEN <<-1, n_cells + 1>>
    ELSE LET prev == BestSegScan(c, k - 1)
         IN  IF Covers(k - 1, c) /\ seg_size(k - 1) < prev[2]
             THEN <<k - 1, seg_size(k - 1)>>
             ELSE prev

best_seg(c) == BestSegScan(c, n_segments)[1]

\* seg_bypassed[] of a sample
SegBypassedAt(current) ==
    [s \in SegIdx |-> \E c \in CellIdx : cell_needs_bypass(c, current) /\ best_seg(c) = s]

\* the smallest size among the segments covering c whose flag in sb is f
\* (n_cells + 1 when there is none)
RECURSIVE SmallestSize(_, _, _, _)
SmallestSize(c, sb, f, k) ==
    IF k = 0 THEN n_cells + 1
    ELSE LET prev == SmallestSize(c, sb, f, k - 1)
         IN  IF Covers(k - 1, c) /\ sb[k - 1] = f /\ seg_size(k - 1) < prev
             THEN seg_size(k - 1)
             ELSE prev

\* cell_is_bypassed[c] with > for >=: an equally small idle segment wins
CellIsBypassed_IdleWinsTie(c, sb) ==
    LET smallest_bypassed_size == SmallestSize(c, sb, TRUE, n_segments)
        smallest_active_size == SmallestSize(c, sb, FALSE, n_segments)
    IN  /\ smallest_bypassed_size < n_cells + 1
        /\ smallest_active_size > smallest_bypassed_size

\* cell_is_bypassed[c] of a sample
CellIsBypassed(c, sb) ==
    LET smallest_bypassed_size == SmallestSize(c, sb, TRUE, n_segments)
        smallest_active_size == SmallestSize(c, sb, FALSE, n_segments)
    IN  /\ smallest_bypassed_size < n_cells + 1
        /\ smallest_active_size >= smallest_bypassed_size

CellIsBypassedAt(sb) == [c \in CellIdx |-> CellIsBypassed(c, sb)]

\* the segment the inner loop of the voltage sum stops at for a bypassed cell
FirstBypassedCovering(c, sb) ==
    CHOOSE s \in SegIdx :
        /\ sb[s] /\ Covers(s, c)
        /\ \A s2 \in SegIdx : (sb[s2] /\ Covers(s2, c)) => s <= s2

\* the voltage sum over cells 0..k-1: total_voltage and the segments counted
RECURSIVE SumVoltage(_, _, _, _)
SumVoltage(k, sb, cb, current) ==
    IF k = 0 THEN [total |-> Zero, diode_counted |-> {}]
    ELSE LET prev == SumVoltage(k - 1, sb, cb, current)
             c == k - 1
         IN  IF cb[c]
             THEN LET s == FirstBypassedCovering(c, sb)
                  IN  IF s \notin prev.diode_counted
                      THEN [total |-> FSub(prev.total, segments[s].v_drop),
                            diode_counted |-> prev.diode_counted \cup {s}]
                      ELSE prev
             ELSE [prev EXCEPT !.total = FAdd(prev.total, CellV(k, current))]

\* cells_bypassed counted at the operating point
CountBypassedAtMpp(at_mpp) ==
    Cardinality({c \in CellIdx :
        \E s \in SegIdx :
            /\ at_mpp[s] /\ Covers(s, c)
            /\ ~ \E s2 \in SegIdx :
                   ~at_mpp[s2] /\ Covers(s2, c) /\ seg_size(s2) < seg_size(s)})

SegBegin ==
    /\ pc = "call_seg"
    /\ IF n_cells <= 0 \/ RLe(max_isc, Zero)
       THEN /\ pc' = "done"
            /\ UNCHANGED <<sample, max_power, mp_idx, seg_bypassed_at_mpp>>
       ELSE /\ pc' = "seg_sweep"
            /\ sample' = 0
            /\ max_power' = Zero
            /\ mp_idx' = 0
            /\ seg_bypassed_at_mpp' = [s \in SegIdx |-> FALSE]
    /\ seg_result' = ZeroResult
    /\ UNCHANGED <<caller_vars, iv_vars, args, series_vars, segment_bypassed, seg_bypassed,
                   cell_is_bypassed, total_voltage>>

SegSample ==
    /\ pc = "seg_sweep"
    /\ sample < NSamples
    /\ LET current == SampleCurrent(sample)
       IN  /\ seg_bypassed' = SegBypassedAt(current)
           /\ cell_is_bypassed' = CellIsBypassedAt(seg_bypassed')
           /\ total_voltage' =
                  SumVoltage(n_cells, seg_bypassed', cell_is_bypassed', current).total
           /\ LET clamped == IF RLt(total_voltage', Zero) THEN Zero
                             ELSE total_voltage'
                  power == RMul(current, clamped)
              IN  /\ seg_result' =
                         [seg_result EXCEPT !.iv_trace.I[sample] = current,
                                            !.iv_trace.V[sample] = clamped]
                  /\ IF RLt(max_power, power)
                     THEN /\ max_power' = power
                          /\ mp_idx' = sample
                          /\ seg_bypassed_at_mpp' = seg_bypassed'
                     ELSE UNCHANGED <<max_power, mp_idx, seg_bypassed_at_mpp>>
    /\ sample' = sample + 1
    /\ UNCHANGED <<caller_vars, iv_vars, args, pc, series_vars, segment_bypassed>>

SegFinish ==
    /\ pc = "seg_sweep"
    /\ sample = NSamples
    /\ LET vec_i == seg_result.iv_trace.I
           vec_v == seg_result.iv_trace.V
       IN  seg_result' = [seg_result EXCEPT
               !.iv_trace.n_samples = NSamples,
               !.iv_trace.Isc = vec_i[NSamples - 1],
               !.iv_trace.Voc = vec_v[0],
               !.iv_trace.Imp = vec_i[mp_idx],
               !.iv_trace.Vmp = vec_v[mp_idx],
               !.power_out = max_power,
               !.voltage = vec_v[mp_idx],
               !.current = vec_i[mp_idx],
               !.cells_bypassed = CountBypassedAtMpp(seg_bypassed_at_mpp)]
    /\ segment_bypassed' = seg_bypassed_at_mpp
    /\ pc' = "done"
    /\ UNCHANGED <<caller_vars, iv_vars, args, series_vars, sample, seg_bypassed, cell_is_bypassed,
                   total_voltage, max_power, mp_idx, seg_bypassed_at_mpp>>

(***************************************************************************)
(* The callers' arguments and the two specifications.                      *)
(*   Spec:    one argument set; StringSim_CalcStringIV runs on it, then    *)
(*            StringSim_CalcStringIVSegments runs on the same cells with   *)
(*            one single-cell segment per bypass-capable cell.             *)
(*   SpecSeg: StringSim_CalcStringIVSegments on any list of segments.      *)
(***************************************************************************)
\* one single-cell segment per cell with a bypass diode, listed in ascending
\* (up = TRUE) or descending cell order
SingleCellSegments(n, hb, drop, up) ==
    LET B == {c \in 0..(n - 1) : hb[c]}
        Nth(s) == CHOOSE c \in B :
                     Cardinality({b \in B : IF up THEN b < c ELSE b > c}) = s
    IN  [s \in 0..(Cardinality(B) - 1) |-> SegmentBypass(Nth(s), Nth(s), drop)]

\* the contiguous runs of cell positions of a string of n cells
SegmentRanges(n) == {p \in (0..(n - 1)) \X (0..(n - 1)) : p[1] <= p[2]}

\* the lists of k segments over n cells, the segment listed at position s
\* having the drop s + 1, so that no two segments of a list share a drop
SegmentChoices(n, k) ==
    {[s \in 0..(k - 1) |-> SegmentBypass(rs[s][1], rs[s][2], R(s + 1))] :
        rs \in [0..(k - 1) -> SegmentRanges(n)]}

(***************************************************************************)
(* IVTrace_CreateCellTrace (iv_trace.c).                                   *)
(*                                                                         *)
(* logf and expf are libm's.  logf is a table over the irradiance ratios   *)
(* drawn here.  expf is any nondecreasing function of the exponent with    *)
(* values in [0, 1] on exponents <= 0 and expf(0) = 1: the value of one    *)
(* sample is drawn from ExpfGrid, at or above the value of the sample      *)
(* before it.  This covers the float results at both ends: expf            *)
(* underflowing to 0 (and 1.0f - expf(x) rounding to 1.0f), and expf(x)    *)
(* rounding to 1 for a small negative x.                                   *)
(***************************************************************************)
TraceIdx == 0..(NTraceSamples - 1)

\* Vt = 0.026f
Vt == <<13, 500>>
\* irradiance_ratio <= 0.001f
DarkEpsilon == <<1, 1000>>
\* irradiance_ratio > 0.01f
VocAdjustRatio == <<1, 100>>
\* exponent > 20.0f
ExponentClamp == R(20)

\* logf at the ratios drawn: logf(1) = 0, logf(1/50) = -3.9 to the model's
\* resolution (-50/13, so that n_ideal * Vt * logf is n_ideal / 10), and
\* logf(1/200) = -5.3 (-70/13)
logf(r) ==
    IF r = R(1) THEN Zero
    ELSE IF r = <<1, 50>> THEN <<-50, 13>>
    ELSE <<-70, 13>>

ExpfGrid == {Zero, <<1, 4>>, <<1, 2>>, <<3, 4>>, R(1)}

\* the values expf(exponent) may take after it returned last for the sample
\* before (exponents never decrease along the loop and are never positive)
expf(exponent, last) ==
    IF ~RLt(exponent, Zero) THEN {R(1)}
    ELSE {e \in ExpfGrid : RLe(last, e)}

\* what the caller's trace may hold before the call
StaleTrace ==
    IVTrace([k \in TraceIdx |-> R(7)], [k \in TraceIdx |-> R(7)],
            NTraceSamples, R(7), R(7), R(7), R(7))

\* the trace when the memset is left out
ZeroTrace_NotCleared == StaleTrace

\* memset(trace, 0, sizeof(IVTrace))
ZeroTrace ==
    IVTrace([k \in TraceIdx |-> Zero], [k \in TraceIdx |-> Zero],
            0, Zero, Zero, Zero, Zero)

\* arguments of IVTrace_CreateCellTrace
Vocs == {<<1, 10>>, <<1, 2>>}
Iscs == {R(100)}
NIdeals == {R(1), R(2)}
SeriesRs == {Zero, <<1, 1000>>, R(1)}
IrradianceRatios == {Zero, <<1, 1000>>, <<1, 200>>, <<1, 50>>, R(1)}

CellParams ==
    [voc : Vocs, isc : Iscs, n_ideal : NIdeals, series_r : SeriesRs,
     irradiance_ratio : IrradianceRatios]

NoParams ==
    [voc |-> Zero, isc |-> Zero, n_ideal |-> Zero, series_r |-> Zero,
     irradiance_ratio |-> Zero]

NoCreate ==
    [i |-> 0, max_power |-> Zero, mp_idx |-> 0, Iph |-> Zero,
     scaled_voc |-> Zero, expf_last |-> Zero]

\* scaled_voc of lines 134-138
ScaledVoc(voc, n_ideal, irradiance_ratio) ==
    IF RLt(VocAdjustRatio, irradiance_ratio)
    THEN LET sv == RAdd(voc, RMul(RMul(n_ideal, Vt), logf(irradiance_ratio)))
         IN  IF RLt(sv, Zero) THEN Zero ELSE sv
    ELSE voc

\* the first-order series-resistance correction, the shift going up
SeriesShift_Up(v, current, series_r) ==
    IF RLt(Zero, series_r) /\ RLt(Zero, current)
    THEN LET w == RAdd(v, RMul(current, series_r))
         IN  IF RLt(w, Zero) THEN Zero ELSE w
    ELSE v

\* the first-order series-resistance correction of lines 160-163
SeriesShift(v, current, series_r) ==
    IF RLt(Zero, series_r) /\ RLt(Zero, current)
    THEN LET w == RSub(v, RMul(current, series_r))
         IN  IF RLt(w, Zero) THEN Zero ELSE w
    ELSE v

\* current clamped to [0, Iph], lines 165-166
ClampCurrent(current, iph) ==
    IF RLt(current, Zero) THEN Zero
    ELSE IF RLt(iph, current) THEN iph ELSE current

CreateBegin ==
    /\ pc = "call_create"
    /\ IF RLe(cell_params.irradiance_ratio, DarkEpsilon)
       THEN /\ trace' = [ZeroTrace EXCEPT !.n_samples = 2]
            /\ pc' = "created"
            /\ UNCHANGED create
       ELSE /\ trace' = [ZeroTrace EXCEPT !.n_samples = NTraceSamples]
            /\ create' = [i |-> 0, max_power |-> Zero, mp_idx |-> 0,
                          Iph |-> RMul(cell_params.isc, cell_params.irradiance_ratio),
                          scaled_voc |-> ScaledVoc(cell_params.voc, cell_params.n_ideal,
                                                   cell_params.irradiance_ratio),
                          expf_last |-> Zero]
            /\ pc' = "create_loop"
    /\ UNCHANGED <<cell_params, query, interp_out, args, series_vars, seg_vars,
                   caller_vars>>

\* one iteration of the sample loop
CreateSample ==
    /\ pc = "create_loop"
    /\ create.i < NTraceSamples
    /\ LET t == RDiv(R(create.i), R(NTraceSamples - 1))
           v0 == RMul(t, create.scaled_voc)
           raw == RDiv(RSub(v0, create.scaled_voc), RMul(cell_params.n_ideal, Vt))
           exponent == IF RLt(ExponentClamp, raw) THEN ExponentClamp ELSE raw
       IN  \E e \in expf(exponent, create.expf_last) :
               LET current0 == RMul(create.Iph, RSub(R(1), e))
                   v == SeriesShift(v0, current0, cell_params.series_r)
                   current == ClampCurrent(current0, create.Iph)
                   power == RMul(v, current)
                   better == RLt(create.max_power, power)
               IN  /\ trace' = [trace EXCEPT !.V[create.i] = v, !.I[create.i] = current]
                   /\ create' = [create EXCEPT
                                     !.i = create.i + 1,
                                     !.max_power = IF better THEN power ELSE @,
                                     !.mp_idx = IF better THEN create.i ELSE @,
                                     !.expf_last = e]
    /\ UNCHANGED <<pc, cell_params, query, interp_out, args, series_vars, seg_vars,
                   caller_vars>>

CreateFinish ==
    /\ pc = "create_loop"
    /\ create.i = NTraceSamples
    /\ trace' = [trace EXCEPT !.Voc = create.scaled_voc,
                              !.Isc = create.Iph,
                              !.Vmp = trace.V[create.mp_idx],
                              !.Imp = trace.I[create.mp_idx]]
    /\ pc' = "created"
    /\ UNCHANGED <<cell_params, create, query, interp_out, args, series_vars, seg_vars,
                   caller_vars>>

\* the voltages of [0, Voc] handed to the round trip: the sample voltages of
\* a trace without series resistance and the midpoints between them
RoundTripVoltages ==
    {RDiv(RMul(R(k), trace.Voc), R(2 * (NTraceSamples - 1))) :
        k \in 0..(2 * (NTraceSamples - 1))}

\* IVTrace_InterpV(trace, IVTrace_InterpI(trace, v)) on the trace just built
RoundTrip ==
    /\ pc = "created"
    /\ \E v \in RoundTripVoltages :
           /\ query' = v
           /\ interp_out' = IVTrace_InterpV(trace, IVTrace_InterpI(trace, v))
    /\ pc' = "round_trip_done"
    /\ UNCHANGED <<trace, cell_params, create, args, series_vars, seg_vars,
                   caller_vars>>

(***************************************************************************)
(* Calls of IVTrace_InterpV and IVTrace_InterpI on a trace of the caller.  *)
(***************************************************************************)
\* arrays of n values of 0..2, the first kind never rising, the second
\* never falling (plateaus allowed)
SampleValues == {Zero, R(1), R(2)}
Falling(n) ==
    {a \in [0..(n - 1) -> SampleValues] : \A k \in 0..(n - 2) : RLe(a[k + 1], a[k])}
Rising(n) ==
    {a \in [0..(n - 1) -> SampleValues] : \A k \in 0..(n - 2) : RLe(a[k], a[k + 1])}

\* traces of n ordered samples
OrderedTraces(n) ==
    {IVTrace(cur, vol, n, vol[n - 1], cur[0], vol[0], cur[0]) :
        cur \in Falling(n), vol \in Rising(n)}

\* currents and voltages queried: sample values, points between, points outside
Queries == {R(-1), Zero, <<1, 2>>, R(1), <<3, 2>>, R(2), R(3)}

InterpVCall ==
    /\ pc = "call_interp"
    /\ \E current \in Queries :
           /\ query' = [of |-> "V", x |-> current]
           /\ interp_out' = IVTrace_InterpV(trace, current)
    /\ pc' = "interp_done"
    /\ UNCHANGED <<trace, cell_params, create, args, series_vars, seg_vars,
                   caller_vars>>

InterpICall ==
    /\ pc = "call_interp"
    /\ \E voltage \in Queries :
           /\ query' = [of |-> "I", x |-> voltage]
           /\ interp_out' = IVTrace_InterpI(trace, voltage)
    /\ pc' = "interp_done"
    /\ UNCHANGED <<trace, cell_params, create, args, series_vars, seg_vars,
                   caller_vars>>

\* the trace functions not called
TraceIdle ==
    /\ trace = StaleTrace
    /\ cell_params = NoParams
    /\ create = NoCreate
    /\ query = Zero
    /\ interp_out = Zero

(***************************************************************************)
(* Cells and wiring of the application (app.h, app.c).                     *)
(*                                                                         *)
(* app holds the fields of AppState the cell and wiring functions read and *)
(* write.  app.cells and app.strings keep the entries below cell_count and *)
(* string_count (the entries past the counts are never read); the status   *)
(* line SetStatus writes is left out.                                      *)
(***************************************************************************)
\* stands for MAX_CELLS (1000)
MaxAppCells == 3
\* stands for MAX_STRINGS (50)
MaxStrings == 2
\* stands for MAX_CELLS_PER_STRING (100)
MaxCellsPerString == 2
\* cell ids and string ids handed out before the model stops placing cells
\* and starting strings
MaxCellIds == 4
MaxStringIds == 3

SolarCell(id, string_id, order_in_string) ==
    [id |-> id, string_id |-> string_id, order_in_string |-> order_in_string]

CellString(id, cell_ids, cell_count) ==
    [id |-> id, cell_ids |-> cell_ids, cell_count |-> cell_count]

\* an array of n entries without the entry at idx, the later ones shifted down
ShiftOut(a, n, idx) == [k \in 0..(n - 2) |-> IF k < idx THEN a[k] ELSE a[k + 1]]

\* an array of n entries with x stored at index n
StoreAt(a, n, x) == [k \in 0..n |-> IF k = n THEN x ELSE a[k]]

\* index of the first entry of an array of n records whose id is id, or -1
FirstWithId(a, n, id) ==
    LET S == {k \in 0..(n - 1) : a[k].id = id}
    IN  IF S = {} THEN -1 ELSE CHOOSE k \in S : \A k2 \in S : k <= k2

\* index of the first occurrence of id among n cell ids, or -1
FirstOccurrence(ids, n, id) ==
    LET S == {k \in 0..(n - 1) : ids[k] = id}
    IN  IF S = {} THEN -1 ELSE CHOOSE k \in S : \A k2 \in S : k <= k2

\* InitApp: no cells, no strings
AppInit ==
    [cells |-> <<>>, cell_count |-> 0, next_cell_id |-> 0,
     strings |-> <<>>, string_count |-> 0, next_string_id |-> 0,
     active_string_id |-> -1, sim_run |-> FALSE]

\* PlaceCell on a position the checks accept
PlaceCellOn(a) ==
    IF a.cell_count >= MaxAppCells THEN a
    ELSE [a EXCEPT !.cells = StoreAt(a.cells, a.cell_count,
                                      SolarCell(a.next_cell_id, -1, -1)),
                   !.next_cell_id = a.next_cell_id + 1,
                   !.cell_count = a.cell_count + 1]

\* RemoveCell leaving the string of the cell as it is
UnwireFromString_Skip(strs, string_count, string_id, cell_id) == strs

\* RemoveCell, lines 589-613: the strings after the cell is taken out of the
\* cell list of the first string whose id is string_id
UnwireFromString(strs, string_count, string_id, cell_id) ==
    LET s == FirstWithId(strs, string_count, string_id)
    IN  IF s < 0 THEN strs
        ELSE LET str == strs[s]
                 c == FirstOccurrence(str.cell_ids, str.cell_count, cell_id)
             IN  IF c < 0 THEN strs
                 ELSE [strs EXCEPT ![s] =
                          CellString(str.id, ShiftOut(str.cell_ids, str.cell_count, c),
                                     str.cell_count - 1)]

RemoveCellOn(a, cell_id) ==
    LET idx == FirstWithId(a.cells, a.cell_count, cell_id)
    IN  IF idx < 0 THEN a
        ELSE LET cell == a.cells[idx]
                 strs == IF cell.string_id >= 0
                         THEN UnwireFromString(a.strings, a.string_count,
                                               cell.string_id, cell_id)
                         ELSE a.strings
             IN  [a EXCEPT !.strings = strs,
                           !.cells = ShiftOut(a.cells, a.cell_count, idx),
                           !.cell_count = a.cell_count - 1]

ClearAllCellsOn(a) ==
    [a EXCEPT !.cells = <<>>, !.cell_count = 0, !.strings = <<>>,
              !.string_count = 0, !.active_string_id = -1, !.sim_run = FALSE]

\* StartNewString: the application after the call (the same when full)
StartNewStringOn(a) ==
    IF a.string_count >= MaxStrings THEN a
    ELSE [a EXCEPT !.strings = StoreAt(a.strings, a.string_count,
                                        CellString(a.next_string_id, <<>>, 0)),
                   !.next_string_id = a.next_string_id + 1,
                   !.active_string_id = a.next_string_id,
                   !.string_count = a.string_count + 1]

\* AddCellToString would call StartNewString
AddStartsString(a, cell_id) ==
    LET idx == FirstWithId(a.cells, a.cell_count, cell_id)
    IN  idx >= 0 /\ a.cells[idx].string_id < 0 /\ a.active_string_id < 0

AddCellToStringOn(a, cell_id) ==
    LET idx == FirstWithId(a.cells, a.cell_count, cell_id)
    IN  IF idx < 0 THEN a
        ELSE IF a.cells[idx].string_id >= 0 THEN a
        ELSE IF a.active_string_id < 0 /\ a.string_count >= MaxStrings THEN a
        ELSE LET b == IF a.active_string_id < 0 THEN StartNewStringOn(a) ELSE a
                 s == FirstWithId(b.strings, b.string_count, b.active_string_id)
             IN  IF s < 0 THEN b
                 ELSE IF b.strings[s].cell_count >= MaxCellsPerString THEN b
                 ELSE LET str == b.strings[s]
                      IN  [b EXCEPT
                              !.cells[idx] = SolarCell(cell_id, str.id, str.cell_count),
                              !.strings[s] =
                                  CellString(str.id,
                                             StoreAt(str.cell_ids, str.cell_count, cell_id),
                                             str.cell_count + 1)]

EndCurrentStringOn(a) ==
    IF a.active_string_id < 0 THEN a
    ELSE LET s == FirstWithId(a.strings, a.string_count, a.active_string_id)
         IN  IF s >= 0 /\ a.strings[s].cell_count = 0
             THEN [a EXCEPT !.strings = ShiftOut(a.strings, a.string_count, s),
                            !.string_count = a.string_count - 1,
                            !.active_string_id = -1]
             ELSE [a EXCEPT !.active_string_id = -1]

\* the cells after the cell of each of the n ids is unwired
RECURSIVE UnwireCells(_, _, _, _)
UnwireCells(cells, cell_count, ids, n) ==
    IF n = 0 THEN cells
    ELSE LET prev == UnwireCells(cells, cell_count, ids, n - 1)
             c == FirstWithId(prev, cell_count, ids[n - 1])
         IN  IF c < 0 THEN prev
             ELSE [prev EXCEPT ![c] = SolarCell(prev[c].id, -1, -1)]

CancelCurrentStringOn(a) ==
    IF a.active_string_id < 0 THEN a
    ELSE LET strIdx == FirstWithId(a.strings, a.string_count, a.active_string_id)
         IN  IF strIdx < 0 THEN a
             ELSE LET str == a.strings[strIdx]
                  IN  [a EXCEPT
                          !.cells = UnwireCells(a.cells, a.cell_count,
                                                str.cell_ids, str.cell_count),
                          !.strings = ShiftOut(a.strings, a.string_count, strIdx),
                          !.string_count = a.string_count - 1,
                          !.active_string_id = -1]

ClearAllWiringOn(a) ==
    [a EXCEPT !.cells = [k \in 0..(a.cell_count - 1) |->
                            SolarCell(a.cells[k].id, -1, -1)],
              !.strings = <<>>, !.string_count = 0,
              !.active_string_id = -1, !.sim_run = FALSE]

\* the cell ids a caller may hand in: any id handed out so far or the next
CellIdArgs == 0..(MaxCellIds - 1)

PlaceCell ==
    /\ pc = "ui"
    /\ app.next_cell_id < MaxCellIds
    /\ \E accepted \in BOOLEAN :
           app' = IF accepted THEN PlaceCellOn(app) ELSE app
    /\ UNCHANGED outside_wiring

RemoveCell ==
    /\ pc = "ui"
    /\ \E cell_id \in CellIdArgs : app' = RemoveCellOn(app, cell_id)
    /\ UNCHANGED outside_wiring

ClearAllCells ==
    /\ pc = "ui"
    /\ app' = ClearAllCellsOn(app)
    /\ UNCHANGED outside_wiring

StartNewString ==
    /\ pc = "ui"
    /\ app.next_string_id < MaxStringIds
    /\ app' = StartNewStringOn(app)
    /\ UNCHANGED outside_wiring

AddCellToString ==
    /\ pc = "ui"
    /\ \E cell_id \in CellIdArgs :
           /\ AddStartsString(app, cell_id) => app.next_string_id < MaxStringIds
           /\ app' = AddCellToStringOn(app, cell_id)
    /\ UNCHANGED outside_wiring

EndCurrentString ==
    /\ pc = "ui"
    /\ app' = EndCurrentStringOn(app)
    /\ UNCHANGED outside_wiring

CancelCurrentString ==
    /\ pc = "ui"
    /\ app' = CancelCurrentStringOn(app)
    /\ UNCHANGED outside_wiring

ClearAllWiring ==
    /\ pc = "ui"
    /\ app' = ClearAllWiringOn(app)
    /\ UNCHANGED outside_wiring

(***************************************************************************)
(* Module persistence (app.c: SaveModule, LoadModule).                     *)
(*                                                                         *)
(* A Vector3 is one coordinate here, the three being written and read the  *)
(* same way.  Coordinates, width and height are counted in units of 1e-7;  *)
(* "%.6f" prints the nearest number of millionths and "%f" reads it back.  *)
(* The file is the sequence of the lines SaveModule prints, each a key and *)
(* a value; the lines of braces and brackets carry the key "other".        *)
(***************************************************************************)
\* stands for MAX_CELLS_PER_MODULE (100)
MaxCellsPerModule == 2
\* calls of LoadModule in one run of the program
MaxLoads == 2

ModuleCellIdx == 0..(MaxCellsPerModule - 1)

CellTemplate(offset, normal) == [offset |-> offset, normal |-> normal]

CellModule(name, cells, cell_count, preset_index, width, height) ==
    [name |-> name, cells |-> cells, cell_count |-> cell_count,
     preset_index |-> preset_index, width |-> width, height |-> height]

\* fprintf "%.6f": the number of millionths nearest to v
Printf6(v) == IF v >= 0 THEN (v + 5) \div 10 ELSE -((5 - v) \div 10)
\* sscanf "%f" of a number of millionths
ScanfFloat(t) == t * 10

Line(key, val) == [key |-> key, val |-> val]

RECURSIVE CellLines(_, _)
CellLines(m, n) ==
    IF n = 0 THEN <<>>
    ELSE CellLines(m, n - 1) \o
         <<Line("other", "{"),
           Line("offset", Printf6(m.cells[n - 1].offset)),
           Line("normal", Printf6(m.cells[n - 1].normal)),
           Line("other", "}")>>

\* the lines SaveModule prints
SavedLines(m) ==
    <<Line("other", "{"),
      Line("name", m.name),
      Line("preset_index", m.preset_index),
      Line("width", Printf6(m.width)),
      Line("height", Printf6(m.height)),
      Line("cell_count", m.cell_count),
      Line("other", "[")>>
    \o CellLines(m, m.cell_count)
    \o <<Line("other", "]"), Line("other", "}")>>

\* one turn of the fgets loop of LoadModule on a line; st holds *module and
\* the static cellIdx
ParseLine(st, line) ==
    LET m == st.module
    IN  IF line.key = "name" THEN [st EXCEPT !.module.name = line.val]
        ELSE IF line.key = "preset_index" THEN [st EXCEPT !.module.preset_index = line.val]
        ELSE IF line.key = "width" THEN [st EXCEPT !.module.width = ScanfFloat(line.val)]
        ELSE IF line.key = "height" THEN [st EXCEPT !.module.height = ScanfFloat(line.val)]
        ELSE IF line.key = "cell_count" THEN [st EXCEPT !.module.cell_count = line.val]
        ELSE IF line.key = "offset"
             THEN LET idx == m.cell_count
                  IN  IF idx < MaxCellsPerModule
                      THEN [st EXCEPT !.module.cells[idx].offset = ScanfFloat(line.val)]
                      ELSE st
        ELSE IF line.key = "normal"
             THEN LET idx == st.cellIdx + 1
                  IN  IF idx < MaxCellsPerModule
                      THEN [st EXCEPT !.cellIdx = idx,
                                      !.module.cells[idx].normal = ScanfFloat(line.val)]
                      ELSE [st EXCEPT !.cellIdx = idx]
        ELSE st

\* the fgets loop over the first k lines
RECURSIVE ParseLines(_, _, _)
ParseLines(st, lines, k) ==
    IF k = 0 THEN st
    ELSE ParseLine(ParseLines(st, lines, k - 1), lines[k])

\* coordinates a module may hold, in units of 1e-7: 14 prints as 0.000001
Coordinates == {0, 10, 14}

\* what a module structure holds before LoadModule fills it
StaleModule ==
    CellModule("stale", [k \in ModuleCellIdx |-> CellTemplate(70, 70)], 7, 7, 70, 70)
ZeroedModule ==
    CellModule("", [k \in ModuleCellIdx |-> CellTemplate(0, 0)], 0, 0, 0, 0)

\* the modules handed to SaveModule: the cells past cell_count are zero
ModulesOf(n) ==
    {CellModule("m", cells, n, 1, 14, 10) :
        cells \in {c \in [ModuleCellIdx -> [offset : Coordinates, normal : Coordinates]] :
                      \A k \in ModuleCellIdx : k >= n => c[k] = CellTemplate(0, 0)}}

ModulesToSave == UNION {ModulesOf(n) : n \in 1..MaxCellsPerModule}

NoFile == <<>>

\* SaveModule on a file that opens
SaveModule ==
    /\ pc = "call_save"
    /\ file' = SavedLines(module)
    /\ pc' = "call_load"
    /\ UNCHANGED <<module, loaded, cellIdx, loads, outside_modules>>

\* LoadModule on the file saved, into a structure of the caller
LoadModule ==
    /\ pc = "call_load"
    /\ loads < MaxLoads
    /\ \E target \in {StaleModule, ZeroedModule} :
           LET st == ParseLines([module |-> [target EXCEPT !.cell_count = 0],
                                 cellIdx |-> cellIdx],
                                file, Len(file))
           IN  /\ loaded' = st.module
               /\ cellIdx' = st.cellIdx
    /\ loads' = loads + 1
    /\ UNCHANGED <<pc, module, file, outside_modules>>

\* no module saved or loaded
ModulesIdle ==
    /\ module = ZeroedModule
    /\ file = NoFile
    /\ loaded = ZeroedModule
    /\ cellIdx = -1
    /\ loads = 0

(***************************************************************************)
(* RunTimeSimulationAnimated of src/src/app.c: the day-long sweep over     *)
(* TIME_SAMPLES times of day and HEADING_SAMPLES headings of the vehicle.  *)
(***************************************************************************)
\* samples of the sweep (48 times of day and 36 headings in the source)
TIME_SAMPLES == 3
HEADING_SAMPLES == 2
\* calls of the sweep a run makes
MaxSweeps == 2

START_HOUR == R(6)
DURATION == R(12)
dt_hours == RDiv(DURATION, R(TIME_SAMPLES - 1))

\* the indices of energy_by_hour[24]
HourBuckets == 0..23

\* (int)h of an h that is not negative
IntOf(h) == h[1] \div h[2]

\* power_w of a cell the sun reaches, in a unit that makes it 1
LitCellPower == R(1)

TimeSimResults(energy_by_hour, total_energy_wh, average_power_w, peak_power_w, average_shaded_pct) ==
    [energy_by_hour |-> energy_by_hour, total_energy_wh |-> total_energy_wh,
     average_power_w |-> average_power_w, peak_power_w |-> peak_power_w,
     average_shaded_pct |-> average_shaded_pct]

\* memset(&app->time_sim_results, 0, ...)
ZeroedTimeSimResults ==
    TimeSimResults([h \in HourBuckets |-> Zero], Zero, Zero, Zero, Zero)

\* the fields AppInit gives the sweep's part of AppState
AppSimInit ==
    [mesh_loaded |-> FALSE, sim_settings |-> [hour |-> R(12)],
     time_sim_results |-> ZeroedTimeSimResults, time_sim_run |-> FALSE]

\* what the sweep's caller can read of the application
Published == [app_sim |-> app_sim, sim_run |-> app.sim_run]

\* the sweep never called
NoSweep ==
    [sweeps |-> 0, before |-> <<>>, ti |-> 0, hi |-> 0, hour |-> Zero,
     total_energy |-> Zero, peak_power |-> Zero, total_samples |-> 0,
     shaded_samples |-> 0, time_step_power_sum |-> Zero]

SweepIdle ==
    /\ app_sim = AppSimInit
    /\ anim = NoSweep

\* everything but the application state the sweep works on and the position
outside_sweep == <<first_call, lib_vars, module_vars, updater_vars>>

\* the hour of time step ti
HourOf(ti) == RAdd(START_HOUR, RDiv(RMul(DURATION, R(ti)), R(TIME_SAMPLES - 1)))


\* "Clear hourly data"
ClearHourly(r) == [r EXCEPT !.energy_by_hour = [h \in HourBuckets |-> Zero]]

\* entry: the early returns, the accumulators, the hourly data cleared
SweepBegin ==
    /\ pc = "call_sweep"
    /\ \E calloc_ok \in BOOLEAN :
           IF app.cell_count = 0 \/ ~app_sim.mesh_loaded \/ ~calloc_ok
           THEN /\ pc' = "sweep_refused"
                /\ anim' = [anim EXCEPT !.before = Published,
                                        !.sweeps = anim.sweeps + 1]
                /\ UNCHANGED app_sim
           ELSE /\ pc' = "sweep_time"
                /\ anim' = [NoSweep EXCEPT !.before = Published,
                                           !.sweeps = anim.sweeps + 1]
                /\ app_sim' = [app_sim EXCEPT
                                   !.time_sim_results = ClearHourly(@)]
    /\ UNCHANGED <<app, outside_sweep>>

\* head of the loop over the times of day: the sun is placed, a night is skipped
SweepTimeStep ==
    /\ pc = "sweep_time"
    /\ anim.ti < TIME_SAMPLES
    /\ app_sim' = [app_sim EXCEPT !.sim_settings.hour = HourOf(anim.ti)]
    /\ \E is_daytime \in BOOLEAN :
           IF is_daytime
           THEN /\ anim' = [anim EXCEPT !.hour = HourOf(anim.ti), !.hi = 0,
                                        !.time_step_power_sum = Zero]
                /\ pc' = "sweep_heading"
           ELSE /\ anim' = [anim EXCEPT !.hour = HourOf(anim.ti),
                                        !.ti = anim.ti + 1]
                /\ pc' = pc
    /\ UNCHANGED <<app, outside_sweep>>

\* one heading sample: the cancel check, then the cells
SweepHeading ==
    /\ pc = "sweep_heading"
    /\ anim.hi < HEADING_SAMPLES
    /\ \E cancel \in BOOLEAN :
           IF cancel
           THEN /\ pc' = "sweep_cancelled"
                /\ UNCHANGED anim
           ELSE \E shaded \in 0..app.cell_count :
                    LET instant_power ==
                            RMul(R(app.cell_count - shaded), LitCellPower)
                    IN  /\ anim' =
                            [anim EXCEPT
                                !.total_samples = @ + app.cell_count,
                                !.shaded_samples = @ + shaded,
                                !.peak_power = IF RLt(@, instant_power)
                                               THEN instant_power ELSE @,
                                !.time_step_power_sum = RAdd(@, instant_power),
                                !.hi = @ + 1]
                        /\ pc' = pc
    /\ UNCHANGED <<app, app_sim, outside_sweep>>

\* after the headings of a time step: its energy goes to the total and the bucket
SweepTimeEnd ==
    /\ pc = "sweep_heading"
    /\ anim.hi = HEADING_SAMPLES
    /\ LET avg_power_this_timestep ==
               RDiv(anim.time_step_power_sum, R(HEADING_SAMPLES))
           energy_this_timestep == RMul(avg_power_this_timestep, dt_hours)
           hour_bucket == IntOf(anim.hour)
       IN  /\ anim' = [anim EXCEPT
                          !.total_energy = RAdd(@, energy_this_timestep),
                          !.ti = @ + 1]
           /\ app_sim' =
                  IF hour_bucket \in HourBuckets
                  THEN [app_sim EXCEPT
                           !.time_sim_results.energy_by_hour[hour_bucket] =
                               RAdd(@, energy_this_timestep)]
                  ELSE app_sim
    /\ pc' = "sweep_time"
    /\ UNCHANGED <<app, outside_sweep>>

\* "Finalize results"
SweepFinish ==
    /\ pc = "sweep_time"
    /\ anim.ti = TIME_SAMPLES
    /\ app_sim' =
           [app_sim EXCEPT
               !.time_sim_results.total_energy_wh = anim.total_energy,
               !.time_sim_results.average_power_w =
                   RDiv(anim.total_energy, DURATION),
               !.time_sim_results.peak_power_w = anim.peak_power,
               !.time_sim_results.average_shaded_pct =
                   IF anim.total_samples > 0
                   THEN RDiv(R(100 * anim.shaded_samples), R(anim.total_samples))
                   ELSE Zero,
               !.sim_settings.hour = R(12),
               !.time_sim_run = TRUE]
    /\ app' = [app EXCEPT !.sim_run = TRUE]
    /\ pc' = "sweep_finished"
    /\ UNCHANGED <<anim, outside_sweep>>

\* the user starts the sweep again
SweepAgain ==
    /\ pc \in {"sweep_refused", "sweep_cancelled", "sweep_finished"}
    /\ anim.sweeps < MaxSweeps
    /\ pc' = "call_sweep"
    /\ UNCHANGED <<app, app_sim, anim, outside_sweep>>

(***************************************************************************)
(* The asynchronous update check of src/src/updater.c: the main thread's   *)
(* StartAsyncUpdateCheck, IsUpdateCheckComplete and GetUpdateCheckResult   *)
(* next to AsyncUpdateCheckThread. The flags are volatile and nothing      *)
(* locks: every statement is a step of its own, and the copy of the        *)
(* structure into g_async_result is two steps, in either order.            *)
(***************************************************************************)
\* calls of StartAsyncUpdateCheck that get past its guard
MaxChecks == 2

Checks == 1..MaxChecks

\* UpdateCheckResult: the two flags the claims read, and the check whose
\* CheckForUpdates filled the other fields (0: none, the fields are zeroed)
UpdateCheckResult(check_in_progress, check_complete, check) ==
    [check_in_progress |-> check_in_progress, check_complete |-> check_complete,
     check |-> check]

\* UpdateCheckResult result = {0}; memset(&g_async_result, 0, ...)
ZeroedUpdateResult == UpdateCheckResult(FALSE, FALSE, 0)

\* what CheckForUpdates of check t returns
CheckForUpdates(t) == UpdateCheckResult(FALSE, FALSE, t)

\* the globals as the program starts
GlobalsInit ==
    [g_check_in_progress |-> FALSE, g_check_complete |-> FALSE,
     g_async_result |-> ZeroedUpdateResult]

\* the main thread before any call: no guard passed, IsUpdateCheckComplete has
\* not returned true, GetUpdateCheckResult has not been called after it did
MainInit ==
    [pc |-> "idle", passed |-> 0, seen_complete |-> FALSE,
     at_complete |-> ZeroedUpdateResult, got |-> <<>>]

UpdaterIdle ==
    /\ g_update = GlobalsInit
    /\ update_threads = [t \in Checks |-> "none"]
    /\ main_thread = MainInit

\* everything but the updater
outside_updater == <<first_call, sim_side, app, module_vars, sweep_vars>>

\* the check thread t has been created and has not returned
Running(t) == update_threads[t] \notin {"none", "exited"}

\* StartAsyncUpdateCheck, its guard
StartAsyncUpdateCheck ==
    /\ pc = "threads"
    /\ main_thread.pc = "idle"
    /\ main_thread.passed < MaxChecks
    /\ main_thread' =
           IF g_update.g_check_in_progress \/ g_update.g_check_complete
           THEN main_thread
           ELSE [main_thread EXCEPT !.pc = "set_in_progress",
                                    !.passed = @ + 1]
    /\ UNCHANGED <<g_update, update_threads, outside_updater>>

\* g_check_in_progress = true
StartSetInProgress ==
    /\ pc = "threads"
    /\ main_thread.pc = "set_in_progress"
    /\ g_update' = [g_update EXCEPT !.g_check_in_progress = TRUE]
    /\ main_thread' = [main_thread EXCEPT !.pc = "clear_complete"]
    /\ UNCHANGED <<update_threads, outside_updater>>

\* g_check_complete = false
StartClearComplete ==
    /\ pc = "threads"
    /\ main_thread.pc = "clear_complete"
    /\ g_update' = [g_update EXCEPT !.g_check_complete = FALSE]
    /\ main_thread' = [main_thread EXCEPT !.pc = "memset"]
    /\ UNCHANGED <<update_threads, outside_updater>>

\* memset(&g_async_result, 0, sizeof(g_async_result))
StartMemset ==
    /\ pc = "threads"
    /\ main_thread.pc = "memset"
    /\ g_update' = [g_update EXCEPT !.g_async_result = ZeroedUpdateResult]
    /\ main_thread' = [main_thread EXCEPT !.pc = "set_result"]
    /\ UNCHANGED <<update_threads, outside_updater>>

\* g_async_result.check_in_progress = true
StartSetResult ==
    /\ pc = "threads"
    /\ main_thread.pc = "set_result"
    /\ g_update' = [g_update EXCEPT !.g_async_result.check_in_progress = TRUE]
    /\ main_thread' = [main_thread EXCEPT !.pc = "create"]
    /\ UNCHANGED <<update_threads, outside_updater>>

\* pthread_create: the thread of this check starts, or the flag is taken back
StartCreate ==
    /\ pc = "threads"
    /\ main_thread.pc = "create"
    /\ \E created \in BOOLEAN :
           IF created
           THEN /\ update_threads' =
                       [update_threads EXCEPT ![main_thread.passed] = "checking"]
                /\ UNCHANGED g_update
           ELSE /\ g_update' = [g_update EXCEPT !.g_check_in_progress = FALSE]
                /\ UNCHANGED update_threads
    /\ main_thread' = [main_thread EXCEPT !.pc = "idle"]
    /\ UNCHANGED outside_updater

\* IsUpdateCheckComplete; the first time it returns true, what g_async_result
\* holds is remembered
IsUpdateCheckComplete ==
    /\ pc = "threads"
    /\ main_thread.pc = "idle"
    /\ main_thread' =
           IF g_update.g_check_complete /\ ~main_thread.seen_complete
           THEN [main_thread EXCEPT !.seen_complete = TRUE,
                                    !.at_complete = g_update.g_async_result]
           ELSE main_thread
    /\ UNCHANGED <<g_update, update_threads, outside_updater>>

\* GetUpdateCheckResult, called once IsUpdateCheckComplete has returned true
GetUpdateCheckResult ==
    /\ pc = "threads"
    /\ main_thread.pc = "idle"
    /\ main_thread.seen_complete
    /\ main_thread' = [main_thread EXCEPT !.got = g_update.g_async_result]
    /\ UNCHANGED <<g_update, update_threads, outside_updater>>

\* g_async_result = CheckForUpdates(): the flags of the structure, or the rest
\* of it, whichever is copied first
ThreadStoreFirst(t) ==
    /\ pc = "threads"
    /\ update_threads[t] = "checking"
    /\ \/ /\ g_update' =
                 [g_update EXCEPT
                     !.g_async_result.check_in_progress =
                         CheckForUpdates(t).check_in_progress,
                     !.g_async_result.check_complete =
                         CheckForUpdates(t).check_complete]
          /\ update_threads' = [update_threads EXCEPT ![t] = "stored_flags"]
       \/ /\ g_update' = [g_update EXCEPT
                             !.g_async_result.check = CheckForUpdates(t).check]
          /\ update_threads' = [update_threads EXCEPT ![t] = "stored_rest"]
    /\ UNCHANGED <<main_thread, outside_updater>>

\* the other part of the copy
ThreadStoreSecond(t) ==
    /\ pc = "threads"
    /\ update_threads[t] \in {"stored_flags", "stored_rest"}
    /\ g_update' =
           IF update_threads[t] = "stored_rest"
           THEN [g_update EXCEPT
                    !.g_async_result.check_in_progress =
                        CheckForUpdates(t).check_in_progress,
                    !.g_async_result.check_complete =
                        CheckForUpdates(t).check_complete]
           ELSE [g_update EXCEPT
                    !.g_async_result.check = CheckForUpdates(t).check]
    /\ update_threads' = [update_threads EXCEPT ![t] = "stored"]
    /\ UNCHANGED <<main_thread, outside_updater>>

\* g_async_result.check_complete = true
ThreadMarkResult(t) ==
    /\ pc = "threads"
    /\ update_threads[t] = "stored"
    /\ g_update' = [g_update EXCEPT !.g_async_result.check_complete = TRUE]
    /\ update_threads' = [update_threads EXCEPT ![t] = "marked"]
    /\ UNCHANGED <<main_thread, outside_updater>>

\* g_check_in_progress = false
ThreadClearInProgress(t) ==
    /\ pc = "threads"
    /\ update_threads[t] = "marked"
    /\ g_update' = [g_update EXCEPT !.g_check_in_progress = FALSE]
    /\ update_threads' = [update_threads EXCEPT ![t] = "released"]
    /\ UNCHANGED <<main_thread, outside_updater>>

\* g_check_complete = true, and the thread returns
ThreadSetComplete(t) ==
    /\ pc = "threads"
    /\ update_threads[t] = "released"
    /\ g_update' = [g_update EXCEPT !.g_check_complete = TRUE]
    /\ update_threads' = [update_threads EXCEPT ![t] = "exited"]
    /\ UNCHANGED <<main_thread, outside_updater>>

AsyncUpdateCheckThread ==
    \E t \in Checks :
        \/ ThreadStoreFirst(t)
        \/ ThreadStoreSecond(t)
        \/ ThreadMarkResult(t)
        \/ ThreadClearInProgress(t)
        \/ ThreadSetComplete(t)

(***************************************************************************)
(* A caller of StringSim_CalcStringIVSegments that calls it a second time  *)
(* on the same cells with the segments listed in another order.            *)
(***************************************************************************)
\* no earlier call is remembered
NoCall == <<>>

\* the orders in which k segments can be listed
SegmentOrders(k) ==
    {p \in [0..(k - 1) -> 0..(k - 1)] : \A a, b \in 0..(k - 1) : p[a] = p[b] => a = b}

\* the caller keeps what the call returned and calls again, the segment
\* listed at position s being the one listed at p[s] before
CallPermuted ==
    /\ pc = "done"
    /\ first_call = NoCall
    /\ \E p \in SegmentOrders(n_segments) :
           /\ segments' = [s \in SegIdx |-> segments[p[s]]]
           /\ first_call' = [p |-> p, seg_result |-> seg_result,
                             segment_bypassed |-> segment_bypassed]
    /\ segment_bypassed' = [s \in SegIdx |-> TRUE]
    /\ pc' = "call_seg"
    /\ UNCHANGED <<cell_traces, n_cells, bypass_v_drop, has_bypass, n_segments,
                   iv_vars, series_vars, seg_result, sample, seg_bypassed,
                   cell_is_bypassed, total_voltage, max_power, mp_idx,
                   seg_bypassed_at_mpp, app_side>>

\* the caller's own state before any call
CallerIdle ==
    /\ first_call = NoCall
    /\ app = AppInit
    /\ ModulesIdle
    /\ SweepIdle
    /\ UpdaterIdle

InitLocals ==
    /\ result = StaleResult
    /\ seg_result = StaleResult
    /\ segment_bypassed = [s \in SegIdx |-> TRUE]
    /\ i = 0
    /\ node_v = <<>>
    /\ n_good_samples = 0
    /\ sample = 0
    /\ seg_bypassed = <<>>
    /\ cell_is_bypassed = <<>>
    /\ total_voltage = Zero
    /\ max_power = Zero
    /\ mp_idx = 0
    /\ seg_bypassed_at_mpp = <<>>

Init ==
    /\ n_cells \in 0..MaxCells
    /\ cell_traces \in [0..(n_cells - 1) -> CellTraces]
    /\ has_bypass \in [0..(n_cells - 1) -> BOOLEAN]
    /\ bypass_v_drop \in BypassDrops
    /\ \E up \in BOOLEAN :
           segments = SingleCellSegments(n_cells, has_bypass, bypass_v_drop, up)
    /\ n_segments = Cardinality(DOMAIN segments)
    /\ pc = "call_series"
    /\ InitLocals
    /\ TraceIdle
    /\ CallerIdle

Next ==
    \/ SeriesBegin
    \/ SeriesSample
    \/ SeriesFinish
    \/ SegBegin
    \/ SegSample
    \/ SegFinish

Spec == Init /\ [][Next]_vars

InitSeg ==
    /\ n_cells \in 0..MaxSegCells
    /\ cell_traces \in [0..(n_cells - 1) -> SegCellTraces]
    /\ has_bypass = [c \in 0..(n_cells - 1) |-> FALSE]
    /\ bypass_v_drop = Zero
    /\ n_segments \in 0..MaxSegs
    /\ segments \in SegmentChoices(n_cells, n_segments)
    /\ pc = "call_seg"
    /\ InitLocals
    /\ TraceIdle
    /\ CallerIdle

NextSeg ==
    \/ SegBegin
    \/ SegSample
    \/ SegFinish

SpecSeg == InitSeg /\ [][NextSeg]_vars

\* most segments of a list handed to the two calls
MaxPermSegs == 2

InitPerm ==
    /\ n_cells = MaxCells
    /\ cell_traces \in [0..(n_cells - 1) -> SegCellTraces]
    /\ has_bypass = [c \in 0..(n_cells - 1) |-> FALSE]
    /\ bypass_v_drop = Zero
    /\ n_segments \in 1..MaxPermSegs
    /\ segments \in SegmentChoices(n_cells, n_segments)
    /\ pc = "call_seg"
    /\ InitLocals
    /\ TraceIdle
    /\ CallerIdle

NextPerm ==
    \/ SegBegin
    \/ SegSample
    \/ SegFinish
    \/ CallPermuted

SpecPerm == InitPerm /\ [][NextPerm]_vars

InitWiring ==
    /\ app = AppInit
    /\ first_call = NoCall
    /\ ModulesIdle
    /\ SweepIdle
    /\ UpdaterIdle
    /\ pc = "ui"
    /\ n_cells = 0
    /\ cell_traces = <<>>
    /\ has_bypass = <<>>
    /\ bypass_v_drop = Zero
    /\ segments = <<>>
    /\ n_segments = 0
    /\ InitLocals
    /\ TraceIdle

NextWiring ==
    \/ PlaceCell
    \/ RemoveCell
    \/ ClearAllCells
    \/ StartNewString
    \/ AddCellToString
    \/ EndCurrentString
    \/ CancelCurrentString
    \/ ClearAllWiring

SpecWiring == InitWiring /\ [][NextWiring]_vars

InitModule ==
    /\ module \in ModulesToSave
    /\ file = NoFile
    /\ loaded = ZeroedModule
    /\ cellIdx = -1
    /\ loads = 0
    /\ SweepIdle
    /\ UpdaterIdle
    /\ pc = "call_save"
    /\ first_call = NoCall
    /\ app = AppInit
    /\ n_cells = 0
    /\ cell_traces = <<>>
    /\ has_bypass = <<>>
    /\ bypass_v_drop = Zero
    /\ segments = <<>>
    /\ n_segments = 0
    /\ InitLocals
    /\ TraceIdle

NextModule ==
    \/ SaveModule
    \/ LoadModule

SpecModule == InitModule /\ [][NextModule]_vars

\* hours the slider of the side panel can leave
SliderHours == {R(9), R(12)}

InitSweep ==
    /\ app \in {AppInit} \cup
               {[PlaceCellOn(AppInit) EXCEPT !.sim_run = r] : r \in BOOLEAN}
    /\ \E loaded_mesh \in BOOLEAN, h \in SliderHours :
           app_sim = [AppSimInit EXCEPT !.mesh_loaded = loaded_mesh,
                                        !.sim_settings.hour = h]
    /\ anim = NoSweep
    /\ pc = "call_sweep"
    /\ first_call = NoCall
    /\ ModulesIdle
    /\ UpdaterIdle
    /\ n_cells = 0
    /\ cell_traces = <<>>
    /\ has_bypass = <<>>
    /\ bypass_v_drop = Zero
    /\ segments = <<>>
    /\ n_segments = 0
    /\ InitLocals
    /\ TraceIdle

NextSweep ==
    \/ SweepBegin
    \/ SweepTimeStep
    \/ SweepHeading
    \/ SweepTimeEnd
    \/ SweepFinish
    \/ SweepAgain

SpecSweep == InitSweep /\ [][NextSweep]_vars

InitUpdater ==
    /\ UpdaterIdle
    /\ pc = "threads"
    /\ first_call = NoCall
    /\ app = AppInit
    /\ ModulesIdle
    /\ SweepIdle
    /\ n_cells = 0
    /\ cell_traces = <<>>
    /\ has_bypass = <<>>
    /\ bypass_v_drop = Zero
    /\ segments = <<>>
    /\ n_segments = 0
    /\ InitLocals
    /\ TraceIdle

NextUpdater ==
    \/ StartAsyncUpdateCheck
    \/ StartSetInProgress
    \/ StartClearComplete
    \/ StartMemset
    \/ StartSetResult
    \/ StartCreate
    \/ IsUpdateCheckComplete
    \/ GetUpdateCheckResult
    \/ AsyncUpdateCheckThread

SpecUpdater == InitUpdater /\ [][NextUpdater]_vars

\* the string simulation not called
StringIdle ==
    /\ n_cells = 0
    /\ cell_traces = <<>>
    /\ has_bypass = <<>>
    /\ bypass_v_drop = Zero
    /\ segments = <<>>
    /\ n_segments = 0
    /\ InitLocals

InitCreate ==
    /\ cell_params \in CellParams
    /\ trace = StaleTrace
    /\ create = NoCreate
    /\ query = Zero
    /\ interp_out = Zero
    /\ pc = "call_create"
    /\ StringIdle
    /\ CallerIdle

NextCreate ==
    \/ CreateBegin
    \/ CreateSample
    \/ CreateFinish
    \/ RoundTrip

SpecCreate == InitCreate /\ [][NextCreate]_vars

InitInterp ==
    /\ \E n \in 1..MaxTraceLen : trace \in OrderedTraces(n)
    /\ cell_params = NoParams
    /\ create = NoCreate
    /\ query = Zero
    /\ interp_out = Zero
    /\ pc = "call_interp"
    /\ StringIdle
    /\ CallerIdle

NextInterp ==
    \/ InterpVCall
    \/ InterpICall

SpecInterp == InitInterp /\ [][NextInterp]_vars

TypeOK ==
    /\ pc \in {"call_series", "series_sweep", "call_seg", "seg_sweep", "done",
               "call_create", "create_loop", "created", "round_trip_done",
               "call_interp", "interp_done", "ui", "call_save", "call_load",
               "call_sweep", "sweep_time", "sweep_heading", "sweep_refused",
               "sweep_cancelled", "sweep_finished", "threads"}
    /\ i \in 0..NSamples
    /\ sample \in 0..NSamples

(***************************************************************************)
(* Vocabulary of the properties.                                           *)
(***************************************************************************)
\* the call did not leave through an early return
Degenerate == n_cells <= 0 \/ RLe(max_isc, Zero)
\* StringSim_CalcStringIV has returned / has swept at least one sample
SeriesReturned == pc \in {"call_seg", "seg_sweep", "done"}
SeriesSwept == pc = "series_sweep" /\ i > 0
\* StringSim_CalcStringIVSegments has returned / has swept at least one sample
SegReturned == pc = "done"
SegSwept == pc = "seg_sweep" /\ sample > 0

Isc(c) == cell_traces[c].Isc
Weak(c, I) == RLe(Isc(c), I)

\* sum of the interpolated voltages at current I of the cells of P among 0..k-1
RECURSIVE SumInterpV(_, _, _)
SumInterpV(k, P, I) ==
    IF k = 0 THEN Zero
    ELSE IF (k - 1) \in P
         THEN RAdd(SumInterpV(k - 1, P, I), IVTrace_InterpV(cell_traces[k - 1], I))
         ELSE SumInterpV(k - 1, P, I)

\* no cell trace is ever queried above its first current sample
NoGap == \A c \in CellIdx : cell_traces[c].I[0] = Isc(c)

(***************************************************************************)
(* C1.  StringSim_CalcStringIV, bypass_v_drop >= 0: at every swept current *)
(* I a bypass-capable cell with Isc <= I lowers the node potential by      *)
(* bypass_v_drop and every cell with I < Isc raises it by its interpolated *)
(* voltage; so when every cell with Isc <= I has a bypass diode the        *)
(* recorded voltage is max(0, sum of the V_cell(I) of the cells with       *)
(* I < Isc, minus bypass_v_drop times the number of cells with Isc <= I).  *)
(***************************************************************************)
C1_NodeRule(I) ==
    \A j \in 1..n_cells :
        /\ (has_bypass[j - 1] /\ Weak(j - 1, I))
               => node_v[j] = FSub(node_v[j - 1], bypass_v_drop)
        /\ RLt(I, Isc(j - 1))
               => node_v[j] = FAdd(node_v[j - 1], IVTrace_InterpV(cell_traces[j - 1], I))

C1_Recorded(I) ==
    (\A c \in CellIdx : Weak(c, I) => has_bypass[c])
        => result.iv_trace.V[i - 1] =
               fmaxf(Zero,
                     RSub(SumInterpV(n_cells, {c \in CellIdx : RLt(I, Isc(c))}, I),
                          RMul(bypass_v_drop,
                               R(Cardinality({c \in CellIdx : Weak(c, I)})))))

\* C1: at the sample just swept every cell follows the node rule, and the
\* recorded voltage is the closed form when every weak cell has a diode
C1_SeriesSampleVoltage ==
    SeriesSwept => (C1_NodeRule(SampleCurrent(i - 1)) /\ C1_Recorded(SampleCurrent(i - 1)))

\* C1 restricted to strings none of whose traces is queried above its first
\* current sample
C1_InRange == NoGap => C1_SeriesSampleVoltage

\* three cells, the middle one dark with a diode: the sample at which both lit
\* cells deliver current records their two voltages minus one drop
C1_Witness ==
    /\ SeriesSwept
    /\ n_cells = 3
    /\ cell_traces = [c \in 0..2 |-> IF c = 1 THEN DarkTrace ELSE FullTrace]
    /\ has_bypass = [c \in 0..2 |-> c = 1]
    /\ bypass_v_drop = R(1)
    /\ SampleCurrent(i - 1) = R(4)
    /\ result.iv_trace.V[i - 1] = <<5, 3>>

(***************************************************************************)
(* C6.  StringSim_CalcStringIVSegments generalizes StringSim_CalcStringIV: *)
(* when the segments are exactly one single-cell segment per bypass-       *)
(* capable cell, each with v_drop = bypass_v_drop >= 0, both functions     *)
(* record the same sample currents and clamped voltages and report the     *)
(* same power_out, voltage and current.                                    *)
(***************************************************************************)
SegmentsAreTheCellDiodes ==
    /\ \A s \in SegIdx :
           /\ segments[s].start_idx = segments[s].end_idx
           /\ segments[s].start_idx \in CellIdx
           /\ has_bypass[segments[s].start_idx]
           /\ segments[s].v_drop = bypass_v_drop
    /\ \A c \in CellIdx :
           has_bypass[c] => Cardinality({s \in SegIdx : segments[s].start_idx = c}) = 1
    /\ RLe(Zero, bypass_v_drop)

\* C6: with one single-cell segment per diode both functions record the same
\* samples and report the same operating point
C6_SegmentsGeneralizeSeries ==
    (SegReturned /\ SegmentsAreTheCellDiodes) =>
        /\ \A k \in SampleIdx :
               /\ seg_result.iv_trace.I[k] = result.iv_trace.I[k]
               /\ seg_result.iv_trace.V[k] = result.iv_trace.V[k]
        /\ seg_result.power_out = result.power_out
        /\ seg_result.voltage = result.voltage
        /\ seg_result.current = result.current

\* C6 restricted to strings none of whose traces is queried above its first
\* current sample
C6_InRange == NoGap => C6_SegmentsGeneralizeSeries

(***************************************************************************)
(* C7.  StringSim_CalcStringIV: with f the first sample index whose        *)
(* unclamped total is negative, the samples at or beyond f are excluded    *)
(* from the maximum-power search and from the retained samples (the search *)
(* covers exactly 0..f-1); with no negative total all samples are kept.    *)
(***************************************************************************)
RawTotal(k) == NodeV(n_cells, SampleCurrent(k))

\* the first sample from k on whose raw total is negative, NSamples if none is
RECURSIVE FirstNegativeFrom(_)
FirstNegativeFrom(k) ==
    IF k >= NSamples THEN NSamples
    ELSE IF RLt(RawTotal(k), Zero) THEN k
    ELSE FirstNegativeFrom(k + 1)

FirstNegative == FirstNegativeFrom(0)

\* C7: the retained samples and the maximum-power search are exactly 0..f-1
C7_TruncatedAtFirstNegative ==
    (SeriesReturned /\ ~Degenerate) =>
        /\ result.iv_trace.n_samples = FirstNegative
        /\ n_good_samples = FirstNegative

\* the number of samples the code keeps: through sample f, and at least 2
C7_KeptOf(f) ==
    IF f < NSamples THEN (IF f + 1 < 2 THEN 2 ELSE f + 1) ELSE NSamples

\* C7, amended: the retained samples and the maximum-power search are 0..f
\* (0..1 when f = 0), sample f recorded with voltage 0, the operating point
\* below f when f >= 1
C7_RetainedThroughFirstNegative ==
    (SeriesReturned /\ ~Degenerate) =>
        LET f == FirstNegative
            kept == C7_KeptOf(f)
        IN  /\ result.iv_trace.n_samples = kept
            /\ n_good_samples = kept
            /\ \A k \in 0..(kept - 1) :
                   RLe(RMul(result.iv_trace.I[k], result.iv_trace.V[k]), result.power_out)
            /\ \E k \in 0..(kept - 1) :
                   /\ result.current = result.iv_trace.I[k]
                   /\ result.voltage = result.iv_trace.V[k]
                   /\ result.power_out = RMul(result.iv_trace.I[k], result.iv_trace.V[k])
                   /\ (f >= 1 => k < f)
            /\ f < NSamples => result.iv_trace.V[f] = Zero

\* a sweep whose total turns negative in the middle: the sample where it does
\* is the last one kept
C7_Witness ==
    /\ SeriesReturned /\ ~Degenerate
    /\ FirstNegative \in 2..(NSamples - 2)
    /\ result.iv_trace.n_samples = FirstNegative + 1
    /\ RLt(Zero, result.power_out)

(***************************************************************************)
(* C8.  StringSim_CalcStringIV, bypass_v_drop >= 0: cells_bypassed is the  *)
(* number of bypass-capable cells with Isc at or below the reported        *)
(* current, and that is the number of cells whose node potential at the    *)
(* operating-point sample was set by the bypass branch; for three cells    *)
(* with the middle one dark and diode-protected it is 1.                   *)
(***************************************************************************)
\* node_v[j] of the sample of current I comes from node_v[j-1] - bypass_v_drop
SetByBypassBranch(j, I) ==
    /\ has_bypass[j - 1]
    /\ RLt(FAdd(NodeV(j - 1, I), CellV(j, I)), FSub(NodeV(j - 1, I), bypass_v_drop))

MiddleCellDark ==
    /\ n_cells = 3
    /\ cell_traces[1] = DarkTrace
    /\ has_bypass[1]
    /\ cell_traces[0] = cell_traces[2]
    /\ RLt(Zero, Isc(0))

\* C8: cells_bypassed is the number of weak bypass-capable cells at the
\* reported current and the number of cells set by the bypass branch there
C8_BypassedCount ==
    (SeriesReturned /\ ~Degenerate) =>
        /\ result.cells_bypassed =
               Cardinality({c \in CellIdx : has_bypass[c] /\ Weak(c, result.current)})
        /\ result.cells_bypassed =
               Cardinality({j \in 1..n_cells : SetByBypassBranch(j, result.current)})
        /\ MiddleCellDark => result.cells_bypassed = 1

\* C8 restricted to strings none of whose traces is queried above its first
\* current sample
C8_InRange == NoGap => C8_BypassedCount

(***************************************************************************)
(* C9.  StringSim_CalcStringIV: a fully dark cell (Isc = 0) without a      *)
(* bypass diode makes power_out 0; whenever power_out > 0 the reported     *)
(* current is strictly below the Isc of every cell without a bypass diode. *)
(***************************************************************************)
\* C9: no power with a dark cell that has no diode; with power, the reported
\* current is below the Isc of every cell without a diode
C9_NoBypassLimitsCurrent ==
    SeriesReturned =>
        /\ (\E c \in CellIdx : ~has_bypass[c] /\ Isc(c) = Zero)
               => result.power_out = Zero
        /\ RLt(Zero, result.power_out)
               => \A c \in CellIdx : ~has_bypass[c] => RLt(result.current, Isc(c))

\* a lit string with a dark cell that has no diode: no power
C9_Witness ==
    /\ SeriesReturned /\ ~Degenerate
    /\ \E c \in CellIdx : ~has_bypass[c] /\ Isc(c) = Zero
    /\ \E c \in CellIdx : has_bypass[c] /\ Isc(c) = Zero
    /\ result.power_out = Zero

(***************************************************************************)
(* C10.  Both functions, called with n_cells <= 0 or with every cell's     *)
(* Isc <= 0, return a result whose power_out, voltage, current,            *)
(* cells_bypassed and trace (sample count, summary scalars) are zero,      *)
(* whatever the result structure held before the call.                     *)
(***************************************************************************)
Zeroed(r) ==
    /\ r.power_out = Zero /\ r.voltage = Zero /\ r.current = Zero
    /\ r.cells_bypassed = 0
    /\ r.iv_trace.n_samples = 0
    /\ r.iv_trace.Voc = Zero /\ r.iv_trace.Isc = Zero
    /\ r.iv_trace.Vmp = Zero /\ r.iv_trace.Imp = Zero

\* C10: after a degenerate call the result is zeroed, whatever it held
C10_DegenerateZeroed ==
    /\ (SeriesReturned /\ Degenerate) => Zeroed(result)
    /\ (SegReturned /\ Degenerate) => Zeroed(seg_result)

\* both functions have returned from a string of dark cells
C10_Witness ==
    /\ SegReturned
    /\ n_cells = 2
    /\ \A c \in CellIdx : cell_traces[c] = DarkTrace
    /\ Zeroed(result) /\ Zeroed(seg_result)

(***************************************************************************)
(* C2.  StringSim_CalcStringIVSegments: at every swept current a segment   *)
(* is marked active if and only if it is the smallest segment (fewest      *)
(* cells) covering some cell whose Isc is at or below that current; with   *)
(* one 2-cell segment and two 1-cell segments over the same two cells and  *)
(* one cell shaded, only the 1-cell segment covering that cell is active.  *)
(***************************************************************************)
\* C2: a segment is active iff it has the fewest cells among the segments
\* covering some weak cell
C2_SmallestCovering ==
    SegSwept =>
        \A s \in SegIdx :
            seg_bypassed[s] <=>
                \E c \in CellIdx :
                    /\ Weak(c, SampleCurrent(sample - 1))
                    /\ Covers(s, c)
                    /\ \A s2 \in SegIdx : Covers(s2, c) => seg_size(s) <= seg_size(s2)

\* the arrangement of the example: a 2-cell segment, then the two 1-cell ones
TwoCellsThreeSegments ==
    /\ n_cells = 2
    /\ n_segments = 3
    /\ segments[0].start_idx = 0 /\ segments[0].end_idx = 1
    /\ segments[1].start_idx = 0 /\ segments[1].end_idx = 0
    /\ segments[2].start_idx = 1 /\ segments[2].end_idx = 1

\* C2, amended: a segment is active iff it is the first listed among the
\* segments with the fewest cells covering some weak cell
C2_FirstSmallestCovering ==
    SegSwept =>
        /\ \A s \in SegIdx :
               seg_bypassed[s] <=>
                   \E c \in CellIdx :
                       /\ Weak(c, SampleCurrent(sample - 1))
                       /\ Covers(s, c)
                       /\ \A s2 \in SegIdx :
                              Covers(s2, c) =>
                                  \/ seg_size(s) < seg_size(s2)
                                  \/ (seg_size(s) = seg_size(s2) /\ s <= s2)
        /\ \A c \in CellIdx :
               (TwoCellsThreeSegments
                    /\ {w \in CellIdx : Weak(w, SampleCurrent(sample - 1))} = {c})
                   => seg_bypassed = [s \in SegIdx |-> s = c + 1]

\* cell 1 shaded under the 2-cell segment and the two 1-cell segments: at a
\* current the lit cell delivers, only the 1-cell segment of cell 1 is active
C2_Witness ==
    /\ SegSwept
    /\ TwoCellsThreeSegments
    /\ cell_traces[0] = FullTrace /\ cell_traces[1] = DarkTrace
    /\ SampleCurrent(sample - 1) = R(4)
    /\ seg_bypassed = [s \in SegIdx |-> s = 2]

(***************************************************************************)
(* C3.  StringSim_CalcStringIVSegments: at every swept current the string  *)
(* voltage before the clamp is the sum of the interpolated voltages of the *)
(* non-bypassed cells minus the v_drop of every active segment, each       *)
(* active segment's drop subtracted exactly once, also when active         *)
(* segments overlap or nest.                                               *)
(***************************************************************************)
\* the sum of cell_v over the non-bypassed cells among 0..k-1
RECURSIVE SumCellV(_, _, _)
SumCellV(k, cb, I) ==
    IF k = 0 THEN Zero
    ELSE IF cb[k - 1] THEN SumCellV(k - 1, cb, I)
         ELSE FAdd(SumCellV(k - 1, cb, I), CellV(k, I))

\* acc minus the v_drop of every segment of D among 0..k-1
RECURSIVE MinusDrops(_, _, _)
MinusDrops(acc, D, k) ==
    IF k = 0 THEN acc
    ELSE IF (k - 1) \in D
         THEN FSub(MinusDrops(acc, D, k - 1), segments[k - 1].v_drop)
         ELSE MinusDrops(acc, D, k - 1)

\* C3: the unclamped total is the non-bypassed cells' voltages minus the drop
\* of every active segment, once each
C3_EachActiveDropOnce ==
    SegSwept =>
        total_voltage =
            MinusDrops(SumCellV(n_cells, cell_is_bypassed, SampleCurrent(sample - 1)),
                       {s \in SegIdx : seg_bypassed[s]}, n_segments)

(***************************************************************************)
(* C4.  StringSim_CalcStringIVSegments: at every swept current a cell      *)
(* counts as bypassed if and only if some active (diode-conducting)        *)
(* segment covers it and no smaller active segment also covers it; so      *)
(* every cell covered by an active segment is bypassed and contributes no  *)
(* cell voltage, and a cell covered by no active segment is not bypassed.  *)
(***************************************************************************)
\* C4: a cell is bypassed iff an active segment covers it
C4_BypassedIffCoveredByActive ==
    SegSwept =>
        \A c \in CellIdx :
            /\ cell_is_bypassed[c] <=>
                   \E s \in SegIdx :
                       /\ seg_bypassed[s] /\ Covers(s, c)
                       /\ ~ \E s2 \in SegIdx :
                              seg_bypassed[s2] /\ Covers(s2, c) /\ seg_size(s2) < seg_size(s)
            /\ (\E s \in SegIdx : seg_bypassed[s] /\ Covers(s, c)) => cell_is_bypassed[c]

\* the segments whose drop the sum takes: per bypassed cell, the first listed
\* conducting segment covering it
C4_Counted ==
    {s \in SegIdx :
        \E c \in CellIdx :
            /\ cell_is_bypassed[c] /\ seg_bypassed[s] /\ Covers(s, c)
            /\ \A s2 \in 0..(s - 1) : ~(seg_bypassed[s2] /\ Covers(s2, c))}

\* C4, amended: a cell is bypassed iff a conducting segment covers it and no
\* strictly smaller idle segment covers it; bypassed cells add no cell voltage
C4_BypassedUnlessFinerIdle ==
    SegSwept =>
        /\ \A c \in CellIdx :
               /\ cell_is_bypassed[c] <=>
                      \E s \in SegIdx :
                          /\ seg_bypassed[s] /\ Covers(s, c)
                          /\ ~ \E s2 \in SegIdx :
                                 /\ ~seg_bypassed[s2] /\ Covers(s2, c)
                                 /\ seg_size(s2) < seg_size(s)
               /\ (~ \E s \in SegIdx : seg_bypassed[s] /\ Covers(s, c))
                      => ~cell_is_bypassed[c]
        /\ total_voltage =
               MinusDrops(SumCellV(n_cells, cell_is_bypassed, SampleCurrent(sample - 1)),
                          C4_Counted, n_segments)

\* a lit cell under a conducting 2-cell segment and under its own idle
\* 1-cell segment: it is not bypassed, its neighbour is
C4_Witness ==
    /\ SegSwept
    /\ n_cells = 2
    /\ \E s, t \in SegIdx :
           /\ seg_bypassed[s] /\ Covers(s, 0) /\ Covers(s, 1)
           /\ ~seg_bypassed[t] /\ Covers(t, 0) /\ ~Covers(t, 1)
    /\ ~cell_is_bypassed[0]
    /\ cell_is_bypassed[1]

(***************************************************************************)
(* C5.  StringSim_CalcStringIVSegments: the returned segment_bypassed      *)
(* flags and cells_bypassed are the active-segment set and the bypassed-   *)
(* cell count that the sweep's resolution computes at the sample reported  *)
(* as the operating point, whatever the value of the maximum power.        *)
(***************************************************************************)
\* C5: the returned flags and count are the sweep's resolution at the
\* reported operating current
C5_FlagsOfOperatingPoint ==
    (SegReturned /\ ~Degenerate) =>
        /\ segment_bypassed = SegBypassedAt(seg_result.current)
        /\ seg_result.cells_bypassed =
               Cardinality({c \in CellIdx :
                   CellIsBypassed(c, SegBypassedAt(seg_result.current))})

\* C5 restricted to results of positive power
C5_PositivePower == RLt(Zero, seg_result.power_out) => C5_FlagsOfOperatingPoint
(***************************************************************************)
(* C11.  StringSim_CalcStringIVSegments called with n_segments = 0 returns *)
(* a zeroed StringSimResult, for any cell traces.                          *)
(***************************************************************************)
\* C11: with no segments the returned power_out, voltage, current and
\* cells_bypassed are all zero
C11_NoSegmentsZeroed ==
    (SegReturned /\ n_segments = 0) =>
        /\ seg_result.power_out = Zero
        /\ seg_result.voltage = Zero
        /\ seg_result.current = Zero
        /\ seg_result.cells_bypassed = 0

(***************************************************************************)
(* C16.  The IVTrace inside every non-degenerate StringSimResult keeps the *)
(* ordering of an IVTrace: over its valid samples I[] is non-increasing    *)
(* and V[] is non-decreasing.                                              *)
(***************************************************************************)
\* the ordering contract of an IVTrace over its valid samples
IVTraceOrdered(t) ==
    \A k \in 0..(t.n_samples - 2) :
        /\ RLe(t.I[k + 1], t.I[k])
        /\ RLe(t.V[k], t.V[k + 1])

\* C16: the trace returned by either function is ordered as a cell trace is
C16_ResultTraceOrdered ==
    /\ (SeriesReturned /\ ~Degenerate) => IVTraceOrdered(result.iv_trace)
    /\ (SegReturned /\ ~Degenerate) => IVTraceOrdered(seg_result.iv_trace)

(***************************************************************************)
(* C19.  N identical lit cell traces, no bypass diodes: at every swept     *)
(* current below the cell Isc StringSim_CalcStringIV records N times the   *)
(* cell's interpolated voltage; the string Voc is N times the cell Voc,    *)
(* the string Isc is the cell Isc, the maximum power is N times the        *)
(* maximum over the swept currents of I x V_cell(I).                       *)
(***************************************************************************)
\* a string of identical lit cells without diodes
IdenticalLitCells ==
    /\ n_cells >= 1
    /\ \A c \in CellIdx : cell_traces[c] = cell_traces[0] /\ ~has_bypass[c]
    /\ RLt(Zero, Isc(0))

\* N times I x V_cell(I) at sample k
CellPowerTimesN(k) ==
    RMul(R(n_cells),
         RMul(SampleCurrent(k), IVTrace_InterpV(cell_traces[0], SampleCurrent(k))))

\* C19: the string of N identical cells is the cell scaled N times in voltage
C19_IdenticalCellsScale ==
    (SeriesReturned /\ IdenticalLitCells) =>
        /\ \A k \in SampleIdx :
               RLt(SampleCurrent(k), Isc(0)) =>
                   result.iv_trace.V[k] =
                       RMul(R(n_cells), IVTrace_InterpV(cell_traces[0], SampleCurrent(k)))
        /\ result.iv_trace.Voc = RMul(R(n_cells), cell_traces[0].Voc)
        /\ result.iv_trace.Isc = Isc(0)
        /\ \E k \in SampleIdx : result.power_out = CellPowerTimesN(k)
        /\ \A k \in SampleIdx : RLe(CellPowerTimesN(k), result.power_out)

\* C19 restricted to strings none of whose traces is queried above its first
\* current sample
C19_InRange == NoGap => C19_IdenticalCellsScale
(***************************************************************************)
(* Vocabulary of the interpolation properties: the call just made is       *)
(* IVTrace_InterpV (query.of = "V", searching I[], reading V[]) or         *)
(* IVTrace_InterpI (query.of = "I", searching V[], reading I[]).           *)
(***************************************************************************)
InterpReturned == pc = "interp_done"
Xs == IF query.of = "V" THEN trace.I ELSE trace.V
Ys == IF query.of = "V" THEN trace.V ELSE trace.I
Ascending == query.of = "I"
LastIdx == trace.n_samples - 1

Between(y, a, b) == (RLe(a, y) /\ RLe(y, b)) \/ (RLe(b, y) /\ RLe(y, a))
QueryInRange == Between(query.x, Xs[0], Xs[LastIdx])
\* samples k, k+1 bracket the query
Brackets(k) == Between(query.x, Xs[k], Xs[k + 1])
BracketingPairs == {k \in 0..(LastIdx - 1) : Brackets(k)}
\* the bracketing pair a scan from sample 0 upward meets first, and the one a
\* scan from the last sample downward meets first
FirstBracket == CHOOSE k \in BracketingPairs : \A k2 \in BracketingPairs : k <= k2
LastBracket == CHOOSE k \in BracketingPairs : \A k2 \in BracketingPairs : k2 <= k
\* the linear interpolation between samples k and k+1
InterpolateOn(k) == LinInterpAt(Xs, Ys, query.x, k, k + 1)

(***************************************************************************)
(* C12.  For a trace of at least 2 samples, IVTrace_InterpV queried with a *)
(* current outside the range of the current samples, and IVTrace_InterpI   *)
(* queried with a voltage outside the range of the voltage samples, return *)
(* the value stored at the nearest endpoint sample.                        *)
(***************************************************************************)
\* the sample index of the endpoint nearest to an out-of-range query
NearestEndpoint ==
    IF Ascending
    THEN (IF RLt(query.x, Xs[0]) THEN 0 ELSE LastIdx)
    ELSE (IF RLt(Xs[0], query.x) THEN 0 ELSE LastIdx)

\* C12: an out-of-range query returns the value stored at the nearest endpoint
C12_OutOfRangeClamped ==
    (InterpReturned /\ trace.n_samples >= 2 /\ ~QueryInRange) =>
        interp_out = Ys[NearestEndpoint]

(***************************************************************************)
(* C13.  For a trace with n_samples = 1, IVTrace_InterpV returns V[0] and  *)
(* IVTrace_InterpI returns I[0], for any query.                            *)
(***************************************************************************)
\* C13: with a single sample the calls return the single stored value
C13_SingleSampleValue ==
    (InterpReturned /\ trace.n_samples = 1) => interp_out = Ys[0]

(***************************************************************************)
(* C14.  For a trace of n >= 2 samples, I[] non-increasing and V[]         *)
(* non-decreasing (plateaus allowed), and a query inside the sampled       *)
(* range: the binary search ends on two adjacent indexes k, k+1 whose      *)
(* x-values bracket the query, the result is the linear interpolation      *)
(* between samples k and k+1 and lies between y[k] and y[k+1], and it      *)
(* agrees with a linear scan for the bracketing pair.                      *)
(***************************************************************************)
\* the pair the binary search of the call ends on
SearchEnd == BinSearch(Xs, query.x, Ascending, 0, LastIdx)

\* the search ends on adjacent bracketing indexes and the result is the
\* interpolation between them, between their two y-values
C14_SearchBrackets ==
    /\ SearchEnd[2] = SearchEnd[1] + 1
    /\ Brackets(SearchEnd[1])
    /\ interp_out = InterpolateOn(SearchEnd[1])
    /\ Between(interp_out, Ys[SearchEnd[1]], Ys[SearchEnd[1] + 1])

\* C14: the search brackets the query, and the result is that of a linear
\* scan from sample 0 for the bracketing pair
C14_AgreesWithLinearScan ==
    (InterpReturned /\ trace.n_samples >= 2 /\ QueryInRange) =>
        /\ C14_SearchBrackets
        /\ interp_out = InterpolateOn(FirstBracket)

\* C14, amended: the search brackets the query; the result is that of a
\* scan from sample 0 for IVTrace_InterpI, of a scan from the last sample for
\* IVTrace_InterpV, and of any scan when no two x-values are equal
C14_AgreesWithDirectedScan ==
    (InterpReturned /\ trace.n_samples >= 2 /\ QueryInRange) =>
        /\ C14_SearchBrackets
        /\ Ascending => interp_out = InterpolateOn(FirstBracket)
        /\ ~Ascending => interp_out = InterpolateOn(LastBracket)
        /\ (\A k \in 0..(LastIdx - 1) : Xs[k] # Xs[k + 1]) =>
               \A k \in BracketingPairs : interp_out = InterpolateOn(k)

\* an IVTrace_InterpV call at a current that two samples of different
\* voltage share: the result is the voltage of the last of them
C14_Witness ==
    /\ InterpReturned /\ trace.n_samples >= 3 /\ QueryInRange
    /\ query.of = "V"
    /\ Cardinality(BracketingPairs) >= 2
    /\ FirstBracket # LastBracket
    /\ InterpolateOn(FirstBracket) # InterpolateOn(LastBracket)
    /\ interp_out = InterpolateOn(LastBracket)
(***************************************************************************)
(* Vocabulary of the properties of IVTrace_CreateCellTrace.                *)
(***************************************************************************)
CreateReturned == pc \in {"created", "round_trip_done"}
DarkCall == RLe(cell_params.irradiance_ratio, DarkEpsilon)
FullIrradiance == cell_params.irradiance_ratio = R(1)
ValidIdx == 0..(trace.n_samples - 1)
SamplePower(k) == RMul(trace.V[k], trace.I[k])

(***************************************************************************)
(* C15.  Every trace produced by IVTrace_CreateCellTrace keeps the IVTrace *)
(* ordering over its valid samples, I[i] >= I[i+1] and V[i] <= V[i+1],     *)
(* the series-resistance shift included.                                   *)
(***************************************************************************)
\* C15: the trace built is ordered
C15_CellTraceOrdered == CreateReturned => IVTraceOrdered(trace)

\* a lit cell with series resistance: one sample's voltage is clamped at 0,
\* a later one is shifted below its unshifted value and stays positive
C15_Witness ==
    /\ CreateReturned /\ ~DarkCall
    /\ RLt(Zero, cell_params.series_r)
    /\ RLt(Zero, trace.I[1]) /\ trace.V[1] = Zero
    /\ \E k \in 2..(NTraceSamples - 2) :
           /\ RLt(Zero, trace.I[k])
           /\ RLt(Zero, trace.V[k])
           /\ RLt(trace.V[k],
                  RMul(RDiv(R(k), R(NTraceSamples - 1)), create.scaled_voc))
           /\ RLt(trace.I[k], trace.I[1])

(***************************************************************************)
(* C17.  For every trace built by IVTrace_CreateCellTrace at full          *)
(* irradiance: (Vmp, Imp) is one of the generated samples, Vmp x Imp >=    *)
(* V[i] x I[i] for every generated sample, 0 < Vmp < Voc, 0 < Imp < Isc.   *)
(***************************************************************************)
\* C17: the recorded maximum-power point is a sample of maximum power, inside
\* the open ranges of voltage and current
C17_MaxPowerPoint ==
    (CreateReturned /\ FullIrradiance) =>
        /\ \E k \in ValidIdx : trace.Vmp = trace.V[k] /\ trace.Imp = trace.I[k]
        /\ \A k \in ValidIdx : RLe(SamplePower(k), RMul(trace.Vmp, trace.Imp))
        /\ RLt(Zero, trace.Vmp) /\ RLt(trace.Vmp, trace.Voc)
        /\ RLt(Zero, trace.Imp) /\ RLt(trace.Imp, trace.Isc)

\* C17 without the open ranges
C17_IsMaximalSample ==
    (CreateReturned /\ FullIrradiance) =>
        /\ \E k \in ValidIdx : trace.Vmp = trace.V[k] /\ trace.Imp = trace.I[k]
        /\ \A k \in ValidIdx : RLe(SamplePower(k), RMul(trace.Vmp, trace.Imp))

(***************************************************************************)
(* C18.  IVTrace_CreateCellTrace with irradiance_ratio at or below the     *)
(* dark epsilon returns a 2-sample trace in which every I and V sample and *)
(* Isc, Voc, Vmp, Imp are zero, whatever the trace held before.            *)
(***************************************************************************)
\* C18: the trace of a dark cell has 2 samples and is zero throughout
C18_DarkTraceZero ==
    (CreateReturned /\ DarkCall) =>
        /\ trace.n_samples = 2
        /\ \A k \in TraceIdx : trace.I[k] = Zero /\ trace.V[k] = Zero
        /\ trace.Isc = Zero /\ trace.Voc = Zero
        /\ trace.Vmp = Zero /\ trace.Imp = Zero

\* a call at the dark epsilon itself, on a trace that held other values
C18_Witness ==
    /\ pc = "created"
    /\ cell_params.irradiance_ratio = DarkEpsilon
    /\ RLt(Zero, cell_params.series_r)
    /\ trace.n_samples = 2
    /\ trace.I = [k \in TraceIdx |-> Zero]

(***************************************************************************)
(* C20.  For a trace built by IVTrace_CreateCellTrace and every voltage v  *)
(* in [0, Voc], IVTrace_InterpV(trace, IVTrace_InterpI(trace, v)) differs  *)
(* from v by at most one voltage sample spacing, Voc divided by the number *)
(* of sample intervals.                                                    *)
(***************************************************************************)
\* C20: the round trip returns the voltage within one sample spacing
C20_RoundTripWithinSpacing ==
    pc = "round_trip_done" =>
        LET spacing == RDiv(trace.Voc, R(NTraceSamples - 1))
            diff == RSub(interp_out, query)
        IN  RLe(diff, spacing) /\ RLe(RNeg(spacing), diff)

\* C20 for traces whose current samples are all different
C20_StrictCurrents ==
    (\A k \in 0..(trace.n_samples - 2) : trace.I[k] # trace.I[k + 1])
        => C20_RoundTripWithinSpacing

(***************************************************************************)
(* C21.  For every irradiance_ratio above the dark epsilon the Voc of the  *)
(* trace built by IVTrace_CreateCellTrace is                               *)
(* max(0, voc + n_ideal * 0.026 * ln(irradiance_ratio)); so the trace's    *)
(* Voc never rises when the irradiance_ratio falls.                        *)
(***************************************************************************)
LogVoc(voc, n_ideal, irradiance_ratio) ==
    LET sv == RAdd(voc, RMul(RMul(n_ideal, Vt), logf(irradiance_ratio)))
    IN  IF RLt(sv, Zero) THEN Zero ELSE sv

\* C21: above the dark epsilon the trace's Voc is the logarithmic formula
C21_VocLogarithmic ==
    (CreateReturned /\ ~DarkCall) =>
        trace.Voc = LogVoc(cell_params.voc, cell_params.n_ideal,
                           cell_params.irradiance_ratio)

\* above the ratio 0.01 the Voc is the formula (a lemma, not the claim)
C21_AboveOneHundredth ==
    RLt(VocAdjustRatio, cell_params.irradiance_ratio) => C21_VocLogarithmic

(***************************************************************************)
(* C22.  Every sample voltage recorded by StringSim_CalcStringIV and       *)
(* StringSim_CalcStringIVSegments is finite and >= 0, and the reported     *)
(* power_out, voltage and current are finite and >= 0, also when cells are *)
(* infeasible at the sampled current (a contribution of -FLT_MAX, a total  *)
(* of -inf): a sample whose total is negative or infeasible is recorded    *)
(* with voltage 0.                                                         *)
(***************************************************************************)
FiniteNonNeg(x) == RLe(Zero, x) /\ RLt(x, R(FLT_MAX))

ReportedFiniteNonNeg(r) ==
    /\ FiniteNonNeg(r.power_out)
    /\ FiniteNonNeg(r.voltage)
    /\ FiniteNonNeg(r.current)
    /\ \A k \in SampleIdx : FiniteNonNeg(r.iv_trace.V[k])

\* C22: recorded voltages and the reported operating point are finite and >= 0
C22_FiniteNonNegative ==
    /\ SeriesSwept =>
           /\ \A k \in 0..(i - 1) : FiniteNonNeg(result.iv_trace.V[k])
           /\ RLt(node_v[n_cells], Zero) => result.iv_trace.V[i - 1] = Zero
    /\ SegSwept =>
           /\ \A k \in 0..(sample - 1) : FiniteNonNeg(seg_result.iv_trace.V[k])
           /\ RLt(total_voltage, Zero) => seg_result.iv_trace.V[sample - 1] = Zero
    /\ SeriesReturned => ReportedFiniteNonNeg(result)
    /\ SegReturned => ReportedFiniteNonNeg(seg_result)

\* both sweeps have met a sample at which two cells are infeasible and no
\* diode carries the current: the totals are -inf, the recorded voltages 0
C22_Witness ==
    /\ SegSwept
    /\ node_v[n_cells] = NegInf
    /\ total_voltage = NegInf
    /\ result.iv_trace.V[NSamples - 1] = Zero
    /\ seg_result.iv_trace.V[sample - 1] = Zero

(***************************************************************************)
(* C23.  When StringSim_CalcStringIVSegments returns through an early exit *)
(* (n_cells <= 0 or a fully dark string), every entry of the caller's      *)
(* segment_bypassed array is false after the call, whatever it held        *)
(* before.                                                                 *)
(***************************************************************************)
\* C23: after a degenerate call every segment_bypassed flag is false
C23_DegenerateFlagsCleared ==
    (SegReturned /\ Degenerate) => \A s \in SegIdx : ~segment_bypassed[s]

\* after a call that swept the samples the flags are those of the operating
\* point, whatever the array held before (a lemma, not the claim)
C23_SweptFlagsWritten ==
    (SegReturned /\ ~Degenerate) => segment_bypassed = seg_bypassed_at_mpp

(***************************************************************************)
(* C24.  The result of StringSim_CalcStringIVSegments does not depend on   *)
(* the order in which the segments are listed: for any permutation of the  *)
(* segments array, with distinct sizes among the segments covering a       *)
(* common cell, the recorded sample voltages, power_out, voltage, current  *)
(* and cells_bypassed are identical and the segment_bypassed flags are     *)
(* permuted accordingly.                                                   *)
(***************************************************************************)
SecondCallReturned == pc = "done" /\ first_call # NoCall

\* segments covering a common cell differ in size
DistinctSizesOnCommonCells ==
    \A s, s2 \in SegIdx :
        (s # s2 /\ \E c \in CellIdx : Covers(s, c) /\ Covers(s2, c))
            => seg_size(s) # seg_size(s2)

SameSamples ==
    \A k \in SampleIdx :
        seg_result.iv_trace.V[k] = first_call.seg_result.iv_trace.V[k]

SameOperatingPoint ==
    /\ seg_result.power_out = first_call.seg_result.power_out
    /\ seg_result.voltage = first_call.seg_result.voltage
    /\ seg_result.current = first_call.seg_result.current
    /\ seg_result.cells_bypassed = first_call.seg_result.cells_bypassed

FlagsPermuted ==
    \A s \in SegIdx : segment_bypassed[s] = first_call.segment_bypassed[first_call.p[s]]

\* C24: the two calls return the same samples and operating point, and
\* flags permuted as the segments were
C24_OrderIndependent ==
    (SecondCallReturned /\ DistinctSizesOnCommonCells) =>
        /\ SameSamples
        /\ SameOperatingPoint
        /\ FlagsPermuted

\* the flags of every sample are permuted as the segments were, hence
\* those of the operating point when the operating point is the same
\* (a lemma, not the claim)
C24_FlagsFollowOperatingPoint ==
    (SecondCallReturned /\ DistinctSizesOnCommonCells
        /\ seg_result.current = first_call.seg_result.current) => FlagsPermuted

(***************************************************************************)
(* Vocabulary of the wiring properties.                                    *)
(***************************************************************************)
AppCellIdx == 0..(app.cell_count - 1)
AppStringIdx == 0..(app.string_count - 1)

\* positions of cell id in the cell list of the string at index s
PositionsIn(s, id) ==
    {k \in 0..(app.strings[s].cell_count - 1) : app.strings[s].cell_ids[k] = id}

StringExists(sid) == \E s \in AppStringIdx : app.strings[s].id = sid
CellExists(id) == \E c \in AppCellIdx : app.cells[c].id = id

(***************************************************************************)
(* C25.  After any sequence of PlaceCell, RemoveCell, StartNewString,      *)
(* AddCellToString, EndCurrentString, CancelCurrentString, ClearAllWiring  *)
(* and ClearAllCells the wiring is referentially consistent: cell ids are  *)
(* pairwise distinct; a cell has string_id = s >= 0 iff a string with id s *)
(* exists and its cell_ids list contains the cell's id exactly once; every *)
(* id in a string's cell_ids is the id of an existing cell; and            *)
(* active_string_id is -1 or the id of an existing string.                 *)
(***************************************************************************)
CellIdsDistinct ==
    \A c, c2 \in AppCellIdx : app.cells[c].id = app.cells[c2].id => c = c2

CellsAgreeWithStrings ==
    \A c \in AppCellIdx : \A s \in AppStringIdx :
        (app.cells[c].string_id = app.strings[s].id)
            <=> Cardinality(PositionsIn(s, app.cells[c].id)) = 1

WiredCellsHaveStrings ==
    \A c \in AppCellIdx :
        /\ app.cells[c].string_id >= -1
        /\ app.cells[c].string_id >= 0 => StringExists(app.cells[c].string_id)
        /\ \A s \in AppStringIdx : Cardinality(PositionsIn(s, app.cells[c].id)) <= 1

StringsListCells ==
    \A s \in AppStringIdx : \A k \in 0..(app.strings[s].cell_count - 1) :
        CellExists(app.strings[s].cell_ids[k])

ActiveStringExists ==
    app.active_string_id = -1 \/ StringExists(app.active_string_id)

\* C25: the cells, the strings and the active string refer to one another
\* consistently
C25_WiringConsistent ==
    /\ CellIdsDistinct
    /\ CellsAgreeWithStrings
    /\ WiredCellsHaveStrings
    /\ StringsListCells
    /\ ActiveStringExists

\* one of three cells placed was removed, a string was ended with one cell
\* and a second string is being wired with the other
C25_Witness ==
    /\ app.next_cell_id = 3
    /\ app.cell_count = 2
    /\ app.string_count = 2
    /\ app.active_string_id = app.strings[1].id
    /\ app.strings[0].cell_count = 1
    /\ app.strings[1].cell_count = 1
    /\ \A c \in AppCellIdx : app.cells[c].string_id >= 0

(***************************************************************************)
(* C26.  After any sequence of PlaceCell, AddCellToString, RemoveCell,     *)
(* EndCurrentString and CancelCurrentString every wired cell's             *)
(* order_in_string equals the position of its id in its string's cell_ids  *)
(* list, so the order values of the cells of one string are exactly        *)
(* 0..cell_count-1 without gaps or duplicates.                             *)
(***************************************************************************)
\* C26: order_in_string is the position in the string's cell list
C26_OrderIsPosition ==
    \A c \in AppCellIdx : \A s \in AppStringIdx :
        app.cells[c].string_id = app.strings[s].id
            => PositionsIn(s, app.cells[c].id) = {app.cells[c].order_in_string}

\* no cell was removed so far: order_in_string is the position
\* (a lemma, not the claim)
C26_WithoutRemoval ==
    app.cell_count = app.next_cell_id => C26_OrderIsPosition

(***************************************************************************)
(* C27.  After any sequence of StartNewString, AddCellToString,            *)
(* RemoveCell, EndCurrentString and CancelCurrentString every string that  *)
(* is not the currently active string contains at least one cell.          *)
(***************************************************************************)
\* C27: only the active string may be empty
C27_NoEmptyInactiveString ==
    \A s \in AppStringIdx :
        app.strings[s].id # app.active_string_id => app.strings[s].cell_count >= 1

(***************************************************************************)
(* C28.  Module persistence round-trips: for any module with               *)
(* 1..MAX_CELLS_PER_MODULE cells, LoadModule applied to the file written   *)
(* by SaveModule yields the same cell_count and, for every i < cell_count, *)
(* the same i-th cell offset and normal, and this holds for every load in  *)
(* a sequence of loads.                                                    *)
(***************************************************************************)
ModuleLoaded == pc = "call_load" /\ loads > 0

\* C28: every load of the saved file gives back the count and the cells
C28_ModuleRoundTrip ==
    ModuleLoaded =>
        /\ loaded.cell_count = module.cell_count
        /\ \A k \in 0..(module.cell_count - 1) :
               /\ loaded.cells[k].offset = module.cells[k].offset
               /\ loaded.cells[k].normal = module.cells[k].normal

\* every load gives back the count, and the first load of a run gives back
\* the normals to the millionth (a lemma, not the claim)
C28_CountAndFirstNormals ==
    ModuleLoaded =>
        /\ loaded.cell_count = module.cell_count
        /\ loads = 1 =>
               \A k \in 0..(module.cell_count - 1) :
                   loaded.cells[k].normal = ScanfFloat(Printf6(module.cells[k].normal))


(***************************************************************************)
(* C29: a cancelled RunTimeSimulationAnimated.                             *)
(***************************************************************************)
\* the sweep saw the window close or Escape before a heading sample
SweepCancelled == pc = "sweep_cancelled"

\* C29: when RunTimeSimulationAnimated has been cancelled, time_sim_results
\* (energy_by_hour included), sim_settings.hour, sim_run and time_sim_run are
\* what they were before the call
C29_CancelPublishesNothing == SweepCancelled => Published = anim.before

\* what does hold: a cancelled sweep leaves sim_run, time_sim_run and the
\* totals of time_sim_results as they were; energy_by_hour holds the energy of
\* the time steps finished before the cancel, and sim_settings.hour the hour
\* of the time step that was cancelled
C29_CancelKeepsFlagsAndTotals ==
    SweepCancelled =>
        LET now == app_sim.time_sim_results
            old == anim.before.app_sim.time_sim_results
        IN  /\ app.sim_run = anim.before.sim_run
            /\ app_sim.time_sim_run = anim.before.app_sim.time_sim_run
            /\ now.total_energy_wh = old.total_energy_wh
            /\ now.average_power_w = old.average_power_w
            /\ now.peak_power_w = old.peak_power_w
            /\ now.average_shaded_pct = old.average_shaded_pct
            /\ app_sim.sim_settings.hour = HourOf(anim.ti)
            /\ \A h \in HourBuckets :
                   RLe(now.energy_by_hour[h], anim.total_energy)

\* and a cancelled sweep processes no further sample
C29_CancelStopsSampling ==
    [][SweepCancelled => (pc' = "call_sweep" /\ UNCHANGED <<app, app_sim, anim>>)]_vars


(***************************************************************************)
(* C30: the asynchronous update check under every interleaving.            *)
(***************************************************************************)
\* a result a finished check left
FinishedResult(r) == r.check_complete /\ ~r.check_in_progress /\ r.check \in Checks

\* at most one check thread is running
AtMostOneThread == Cardinality({t \in Checks : Running(t)}) <= 1

\* what GetUpdateCheckResult returned after IsUpdateCheckComplete returned true
\* is a finished result
ReturnedFinished ==
    main_thread.got # <<>> => FinishedResult(main_thread.got)

\* once IsUpdateCheckComplete has returned true, g_async_result is the finished
\* result it was then
ResultKept ==
    main_thread.seen_complete =>
        /\ FinishedResult(g_update.g_async_result)
        /\ g_update.g_async_result = main_thread.at_complete

\* C30: under every interleaving of the main thread's calls with the check
\* threads, at most one check thread is running, and once IsUpdateCheckComplete
\* has returned true GetUpdateCheckResult returns the finished result of that
\* check, which no later StartAsyncUpdateCheck resets or overwrites
C30_UpdateCheckSafe == AtMostOneThread /\ ReturnedFinished /\ ResultKept

\* what does hold when stores become visible in program order: as long as
\* StartAsyncUpdateCheck has got past its guard once only, one thread at most
\* runs and the result read after IsUpdateCheckComplete returned true is the
\* finished result of that check
C30_SafeWithOneStart ==
    main_thread.passed <= 1 => AtMostOneThread /\ ReturnedFinished /\ ResultKept

=============================================================================
